---- MODULE Spec2Model ----
(***************************************************************************)
(* Model of the orrery coordinate core: Rotation and SpherePoint           *)
(* (sphere.py), Observer (observer.py), Body / Catalog (objects.py) and    *)
(* NamedMixin (utils.py).                                                  *)
(*                                                                         *)
(* Arithmetic is exact.  Angles are counted in quarter turns (1 = pi/2),   *)
(* so that cos and sin take the values -1, 0, 1 and every rotation about a *)
(* coordinate axis has an integer matrix; the rotations that arise form    *)
(* the 24-element rotation group of the cube, which is not commutative.    *)
(* Floating-point rounding is outside the model.                           *)
(***************************************************************************)
EXTENDS Integers, Sequences, FiniteSets, TLC

VARIABLES
    rA,          \* Rotation: the receiver / left operand of a call
    rB,          \* Rotation: the right operand of a call
    rRes,        \* Rotation returned by the last call (NoRot when it raised)
    rVec,        \* vector returned by the last call on a vector
    rPt,         \* SpherePoint returned by the last call on a SpherePoint
    rCall        \* the last call and its arguments that are not Rotations

VARIABLES
    view,        \* Observer.__view
    otime,       \* Observer.__time
    oloc,        \* Observer.__loc
    win,         \* Observer.width and Observer.height
    offset,      \* Observer.__offset: <<>> (None) or <<timedelta>>
    toViewC,     \* Observer.__toView: <<>> (None) or a Rotation
    now,         \* the clock read by datetime.utcnow()
    oCall        \* the last call on the Observer and its arguments

VARIABLES
    heap,        \* the Body and Stellar objects constructed so far, by identity
    bodies,      \* Catalog.bodies: a list of object identities
    stellars,    \* Catalog.stellars: a list of object identities
    obody,       \* Observer.__body: an object identity, 0 while it is no catalog object
    refRet,      \* what Observer.toRef returned last (NoPoint for None)
    cCall        \* the last call on the Catalog or toRef, and its arguments

VARIABLES
    byX,         \* Observer.__byX: a list of <<x, object>>
    byY,         \* Observer.__byY: a list of <<y, object>>
    winRet,      \* what Observer.objToWindow returned last: <<x, y>>
    calls        \* the objToWindow calls since the lists were last cleared

VARIABLES
    posRet       \* the last call of Body.position and what it returned

VARIABLES
    aArg,        \* the number or string the caller holds for the Angle
                 \* constructor
    radians,     \* <<Angle.__radians>> of the Angle constructed last, <<>>
                 \* when the constructor raised
    aRet,        \* the triple that Angle.dms or Angle.hms returned last
    aCall        \* the last call on Angle and its arguments

VARIABLES
    pArg,        \* the <<lat, long>> the caller holds for SpherePoint(lat, long)
    pRet         \* <<SpherePoint.__lat, SpherePoint.__long>> of the point
                 \* constructed from it, <<>> before the call

VARIABLES
    xL,          \* the left operand of a + or * : an Angle or a number
    xR,          \* the right operand
    xRet,        \* what the operation returned or raised, <<>> before it
    xCall        \* the operation applied last

VARIABLES
    axArg,       \* the arguments the caller holds for Rotation(axis, angle)
    axRet,       \* the Rotation constructed from them (NoRot when it raised)
    axCall       \* "new" once the constructor was called

VARIABLES
    llArg,       \* the latitude and longitude fields, cardinal letters and spacing of the string the caller holds for parseLatLong
    llRet,       \* the exception parseLatLong raised ("" when none) and the point it returned
    llCall       \* "parseLatLong" once it was called

VARIABLES
    selected,    \* Observer.selected: the identity of the selected object, 0 for None
    sCall        \* the selectBy calls made in a row with the same arguments: the arguments, the selection the first call found, the selections made and the lists the calls found

VARIABLES
    cView,       \* Celestial._view
    cSky,        \* Celestial._sky, <<>> for None
    cTotal,      \* Celestial._total, <<>> for None
    cTime,       \* Celestial._time
    cLoc,        \* Celestial._loc
    celCall      \* the last call on the Celestial and the Rotation a read returned

VARIABLES
    mixins,      \* the NamedMixin objects the caller holds: the name and the aliases of each
    nCall        \* the last merge call: the object it was called on, its argument, the objects it found and the exception raised ("" when none)

rotVars == <<rA, rB, rRes, rVec, rPt, rCall>>

obsVars == <<view, otime, oloc, win, offset, toViewC, now, oCall>>

catVars == <<heap, bodies, stellars, obody, refRet, cCall>>

visVars == <<byX, byY, winRet, calls>>

posVars == <<posRet>>

angVars == <<aArg, radians, aRet, aCall>>

sphVars == <<pArg, pRet>>

arVars == <<xL, xR, xRet, xCall>>

axVars == <<axArg, axRet, axCall>>

llVars == <<llArg, llRet, llCall>>

selVars == <<selected, sCall>>

celVars == <<cView, cSky, cTotal, cTime, cLoc, celCall>>

nmVars == <<mixins, nCall>>

\* the variables of the later sections
extVars == <<arVars, axVars, llVars, selVars, celVars, nmVars>>

\* the variables of the sections before them
coreVars == <<rotVars, obsVars, catVars, visVars, posVars, angVars, sphVars>>

\* the variables outside each later section
notAr == <<coreVars, axVars, llVars, selVars, celVars, nmVars>>
notAx == <<coreVars, arVars, llVars, selVars, celVars, nmVars>>
notLl == <<coreVars, arVars, axVars, selVars, celVars, nmVars>>
notSel == <<coreVars, arVars, axVars, llVars, celVars, nmVars>>
notCel == <<coreVars, arVars, axVars, llVars, selVars, nmVars>>
notNm == <<coreVars, arVars, axVars, llVars, selVars, celVars>>

vars == <<rotVars, obsVars, catVars, visVars, posVars, angVars, sphVars,
          extVars>>

\* the variables outside the Rotation calls, outside the Observer, and
\* outside the Catalog and the Observer's fields
notRot == <<obsVars, catVars, visVars, posVars, angVars, sphVars, extVars>>
notObs == <<rotVars, catVars, visVars, posVars, angVars, sphVars, extVars>>
notCat == <<rotVars, now, visVars, posVars, angVars, sphVars,
            extVars>>

----------------------------------------------------------------------------
(* Bounds *)

\* probe vectors have components in -MaxCoord .. MaxCoord
MaxCoord == 1
\* rotation angles range over -MaxAngle .. MaxAngle quarter turns
MaxAngle == 2
\* axis vectors have length 0 .. MaxAxisLen
MaxAxisLen == 1
\* observation times and clock readings range over 0 .. MaxTime
MaxTime == 1

----------------------------------------------------------------------------
(* Trigonometry on quarter turns *)

Abs(n) == IF n < 0 THEN -n ELSE n

\* math.cos at a multiple of pi/2
Cos(a) == CASE a % 4 = 0 -> 1
            [] a % 4 = 1 -> 0
            [] a % 4 = 2 -> -1
            [] a % 4 = 3 -> 0

\* math.sin at a multiple of pi/2
Sin(a) == CASE a % 4 = 0 -> 0
            [] a % 4 = 1 -> 1
            [] a % 4 = 2 -> 0
            [] a % 4 = 3 -> -1

\* math.acos of -1, 0, 1 in quarter turns
Acos(d) == CASE d = 1 -> 0
             [] d = 0 -> 1
             [] d = -1 -> 2

\* math.atan2(y, x) in quarter turns, for (x, y) on a coordinate axis
Atan2(y, x) == CASE y = 0 /\ x >= 0 -> 0
                 [] y > 0 /\ x = 0 -> 1
                 [] y = 0 /\ x < 0 -> 2
                 [] y < 0 /\ x = 0 -> -1

\* math.sqrt of a perfect square
Sqrt(n) == CHOOSE r \in 0..n : r * r = n


----------------------------------------------------------------------------
(* Vectors *)

Vec(lo, hi) == {<<x, y, z>> : x \in lo..hi, y \in lo..hi, z \in lo..hi}

\* vectors used to probe a Rotation
Probes == Vec(-MaxCoord, MaxCoord)

\* vectors lying on a coordinate axis, the zero vector included
AxisVectors ==
    {v \in Vec(-MaxAxisLen, MaxAxisLen) :
        Cardinality({i \in 1..3 : v[i] # 0}) <= 1}

Angles == (-MaxAngle)..MaxAngle

\* Rotation.__dot
dot(v1, v2) == v1[1] * v2[1] + v1[2] * v2[2] + v1[3] * v2[3]

----------------------------------------------------------------------------
(* Rotation: a value is its matrix, a tuple of three rows.  NoRot stands   *)
(* for a call that raised ValueError and produced no Rotation.             *)

NoRot == <<>>

\* determinant, as __check_special computes it
det(mat) ==
      mat[1][1] * (mat[2][2] * mat[3][3] - mat[3][2] * mat[2][3])
    - mat[1][2] * (mat[2][1] * mat[3][3] - mat[3][1] * mat[2][3])
    + mat[1][3] * (mat[2][1] * mat[3][2] - mat[3][1] * mat[2][2])

\* __check_special that only looks at the size of the determinant
check_special_abs(mat) == Abs(det(mat)) = 1

\* __check_special passes
check_special(mat) == det(mat) = 1

\* __check_ortho passes
check_ortho(mat) ==
    /\ \A i \in 1..3 : dot(mat[i], mat[i]) = 1
    /\ dot(mat[1], mat[2]) = 0
    /\ dot(mat[2], mat[3]) = 0
    /\ dot(mat[3], mat[1]) = 0

\* Rotation((a, b, c), (d, e, f), (g, h, i))
FromRows(r1, r2, r3) ==
    IF check_special(<<r1, r2, r3>>) /\ check_ortho(<<r1, r2, r3>>)
    THEN <<r1, r2, r3>>
    ELSE NoRot

\* Rotation(x, y, z, angle) with a sign slipped in the second row
AxisAngle_signslip(ax, ay, az, ang) ==
    LET c == Cos(ang)
        s == Sin(ang)
        vs == 1 - c
        m == Sqrt(ax * ax + ay * ay + az * az)
    IN  IF m = 0 THEN NoRot
        ELSE LET x == ax \div m
                 y == ay \div m
                 z == az \div m
             IN  << <<c + x * x * vs, x * y * vs - z * s, x * z * vs + y * s>>,
                    <<y * x * vs + z * s, c + y * y * vs, y * z * vs + x * s>>,
                    <<z * x * vs - y * s, z * y * vs + x * s, c + z * z * vs>> >>

\* Rotation(x, y, z, angle) with the zero axis let through
AxisAngle_unchecked(ax, ay, az, ang) ==
    LET c == Cos(ang)
        s == Sin(ang)
        vs == 1 - c
        m == Sqrt(ax * ax + ay * ay + az * az)
        x == IF m = 0 THEN 0 ELSE ax \div m
        y == IF m = 0 THEN 0 ELSE ay \div m
        z == IF m = 0 THEN 0 ELSE az \div m
    IN  << <<c + x * x * vs, x * y * vs - z * s, x * z * vs + y * s>>,
           <<y * x * vs + z * s, c + y * y * vs, y * z * vs - x * s>>,
           <<z * x * vs - y * s, z * y * vs + x * s, c + z * z * vs>> >>

\* Rotation(x, y, z, angle)
AxisAngle(ax, ay, az, ang) ==
    LET c == Cos(ang)
        s == Sin(ang)
        vs == 1 - c
        m == Sqrt(ax * ax + ay * ay + az * az)
    IN  IF m = 0 THEN NoRot
        ELSE LET x == ax \div m
                 y == ay \div m
                 z == az \div m
             IN  << <<c + x * x * vs, x * y * vs - z * s, x * z * vs + y * s>>,
                    <<y * x * vs + z * s, c + y * y * vs, y * z * vs - x * s>>,
                    <<z * x * vs - y * s, z * y * vs + x * s, c + z * z * vs>> >>

\* Rotation.identity
identity == AxisAngle(0, 0, 1, 0)

\* Rotation.inverse that rebuilds the rows without transposing
inverse_rows(self) ==
    IF self = NoRot THEN NoRot
    ELSE FromRows(self[1], self[2], self[3])

\* Rotation.inverse
inverse(self) ==
    IF self = NoRot THEN NoRot
    ELSE FromRows(<<self[1][1], self[2][1], self[3][1]>>,
                  <<self[1][2], self[2][2], self[3][2]>>,
                  <<self[1][3], self[2][3], self[3][3]>>)

\* Rotation.__div__
div(self, other) ==
    IF self = NoRot \/ other = NoRot THEN NoRot
    ELSE FromRows(<<dot(self[1], other[1]), dot(self[1], other[2]), dot(self[1], other[3])>>,
                  <<dot(self[2], other[1]), dot(self[2], other[2]), dot(self[2], other[3])>>,
                  <<dot(self[3], other[1]), dot(self[3], other[2]), dot(self[3], other[3])>>)

\* Rotation.__mul__ with the operands exchanged
mul_reversed(self, other) == div(other, inverse(self))

\* Rotation.__mul__
mul(self, other) == div(self, inverse(other))

\* Rotation.rotate on a vector
rotate(self, vc) == <<dot(self[1], vc), dot(self[2], vc), dot(self[3], vc)>>

----------------------------------------------------------------------------
(* SpherePoint: ll holds (__lat, __long) and vec holds __vector; the one   *)
(* not given at construction is <<>> (None) and is derived on access.      *)
(* A unit vector off the coordinate axes is represented by the shortest    *)
(* integer vector of the same direction.                                   *)

NoPoint == [ll |-> <<>>, vec |-> <<>>]

RECURSIVE GCD(_, _)
GCD(a, b) == IF b = 0 THEN a ELSE GCD(b, a % b)

\* SpherePoint.__init__: Normalize Long, with q units in a quarter turn
normLong(long, q) == ((long + 2 * q) % (4 * q)) - 2 * q

\* the latitude wrapped modulo a full turn and not reflected
normLat_modulo(lat, q) == ((lat + q) % (4 * q)) - q

\* SpherePoint.__init__: Normalize Lat, with q units in a quarter turn
normLat(lat, q) ==
    LET lt == ((lat + q) % (4 * q)) - q
    IN  IF lt > q /\ lt < 3 * q THEN 2 * q - lt ELSE lt

\* SpherePoint(lat, long)
SpherePoint(lat, long) ==
    [ll |-> <<normLat(lat, 1), normLong(long, 1)>>, vec |-> <<>>]

\* SpherePoint(x, y, z)
SpherePointXYZ(x, y, z) ==
    LET m == GCD(Abs(x), GCD(Abs(y), Abs(z)))
    IN  [ll |-> <<>>,
         vec |-> IF m = 0 THEN <<1, 0, 0>> ELSE <<x \div m, y \div m, z \div m>>]

\* SpherePoint.__calc_latlong
calc_latlong(v) ==
    <<Atan2(v[3], Sqrt(v[1] * v[1] + v[2] * v[2])), ((Atan2(v[2], v[1]) + 2) % 4) - 2>>

\* SpherePoint.__calc_vector
calc_vector(ll) ==
    <<Cos(ll[1]) * Cos(ll[2]), Cos(ll[1]) * Sin(ll[2]), Sin(ll[1])>>

\* SpherePoint.lat
Lat(pt) == IF pt.ll = <<>> THEN calc_latlong(pt.vec)[1] ELSE pt.ll[1]

\* SpherePoint.long
Long(pt) == IF pt.ll = <<>> THEN calc_latlong(pt.vec)[2] ELSE pt.ll[2]

\* SpherePoint.vector
Vector(pt) == IF pt.vec = <<>> THEN calc_vector(pt.ll) ELSE pt.vec

\* the points callers pass: North, South, East, West, Zenith and Nadir
\* of CARDINALS
Points ==
    {SpherePoint(0, 0), SpherePoint(0, 2), SpherePoint(0, -1),
     SpherePoint(0, 1), SpherePoint(1, 0), SpherePoint(-1, 0)}

\* Rotation.rotate on a SpherePoint
rotatePt(self, pt) ==
    LET vc == rotate(self, Vector(pt))
    IN  SpherePointXYZ(vc[1], vc[2], vc[3])

\* Rotation.moveTo
moveTo(begin, end, prop) ==
    LET u == Vector(begin)
        v == Vector(end)
        ang == Acos(dot(u, v))
    IN  AxisAngle(u[2] * v[3] - u[3] * v[2],
                  u[3] * v[1] - u[1] * v[3],
                  u[1] * v[2] - u[2] * v[1],
                  ang * prop)

\* proportions given to moveTo
Props == {0, 1}

\* Rotation.__call__ conjugating as R * A^T * R
call_misplaced(self, other) ==
    IF other.type = "Rotation"
    THEN [type |-> "Rotation", val |-> mul(div(self, other.val), self)]
    ELSE IF other.type = "SpherePoint"
    THEN [type |-> "SpherePoint", val |-> rotatePt(self, other.val)]
    ELSE [type |-> "Vector", val |-> rotate(self, other.val)]

\* Rotation.__call__; the argument and the result carry their Python type
call(self, other) ==
    IF other.type = "Rotation"
    THEN [type |-> "Rotation", val |-> div(mul(self, other.val), self)]
    ELSE IF other.type = "SpherePoint"
    THEN [type |-> "SpherePoint", val |-> rotatePt(self, other.val)]
    ELSE [type |-> "Vector", val |-> rotate(self, other.val)]

----------------------------------------------------------------------------
(* Values of the Observer's fields while no Observer is in use *)

\* Observer.__init__: the selection system holds no visible object
VisIdle ==
    /\ byX = <<>>
    /\ byY = <<>>
    /\ winRet = <<>>
    /\ calls = <<>>
    /\ posRet = <<>>

\* a value of type tp: an Angle (val its radians) or a number
Operand(tp, val) == [type |-> tp, val |-> val]

\* no operation on Angle and numbers at hand
ArIdle ==
    /\ xL = Operand("none", 0)
    /\ xR = Operand("none", 0)
    /\ xRet = <<>>
    /\ xCall = "none"

\* no axis-angle construction at hand
AxIdle ==
    /\ axArg = [form |-> "none", axis |-> <<0, 0, 0>>, pt |-> NoPoint, ang |-> 0]
    /\ axRet = NoRot
    /\ axCall = "none"

\* no field: the characters of a latitude or longitude field and what they
\* stand for, in tenths of a radian and in tenths of an arc second
NoField == [str |-> <<>>, rad |-> 0, deg |-> 0]

\* no latitude-longitude string at hand
LlIdle ==
    /\ llArg = [lat |-> NoField, latCard |-> <<>>, lng |-> NoField, lngCard |-> <<>>, gap |-> <<>>]
    /\ llRet = [raised |-> "", pt |-> <<>>]
    /\ llCall = "none"

\* no selectBy call made
NoSelect ==
    [op |-> "none", shift |-> 0, isByX |-> FALSE, start |-> 0, run |-> <<>>,
     lists |-> <<>>]

\* nothing selected and no selectBy call made
SelIdle ==
    /\ selected = 0
    /\ sCall = NoSelect

\* no Celestial in use
CelIdle ==
    /\ cView = NoRot
    /\ cSky = <<>>
    /\ cTotal = <<>>
    /\ cTime = 0
    /\ cLoc = NoPoint
    /\ celCall = [op |-> "none", ret |-> NoRot]

\* other is the argument of merge: a str (keys holds it), an iterable of
\* str (keys), a NamedMixin (id its position in mixins) or an int
NoArg == [type |-> "none", id |-> 0, keys |-> {}]

NCall(op) == [op |-> op, self |-> 0, other |-> NoArg, prev |-> <<>>, raised |-> ""]

\* no NamedMixin objects at hand
NmIdle ==
    /\ mixins = <<>>
    /\ nCall = NCall("none")

ExtIdle ==
    /\ ArIdle
    /\ AxIdle
    /\ LlIdle
    /\ SelIdle
    /\ CelIdle
    /\ NmIdle

\* no Angle constructed and no argument at hand
AngIdle ==
    /\ ExtIdle
    /\ aArg = [kind |-> "none", num |-> 0, str |-> <<>>]
    /\ radians = <<>>
    /\ aRet = <<>>
    /\ aCall = [op |-> "none", arg |-> <<>>, prev |-> <<>>, raised |-> ""]
    /\ pArg = <<0, 0>>
    /\ pRet = <<>>

\* obj is an object identity, ret what Catalog.append returned, raised
\* whether the call raised KeyError, prev the lists the call found,
\* parentName the parent attribute of a loaded element
CCall(op) == [op |-> op, key |-> "", obj |-> 0, ret |-> FALSE, raised |-> FALSE,
              prev |-> <<>>, parentName |-> <<>>]

\* Catalog.__init__ with no lists given, and no object constructed yet
CatIdle ==
    /\ heap = <<>>
    /\ bodies = <<>>
    /\ stellars = <<>>
    /\ obody = 0
    /\ refRet = NoPoint
    /\ cCall = CCall("none")

\* prev is the view a look call found, raised whether the call raised
OCall(op) == [op |-> op, angle |-> 0, point |-> NoPoint, prop |-> 0,
              prev |-> <<>>, raised |-> FALSE]

ObsIdle ==
    /\ view = identity
    /\ otime = 0
    /\ oloc = SpherePoint(0, 0)
    /\ win = <<2, 1>>
    /\ offset = <<>>
    /\ toViewC = <<>>
    /\ now = 0
    /\ oCall = OCall("init")
    /\ CatIdle
    /\ VisIdle
    /\ AngIdle

----------------------------------------------------------------------------
(* Calls on Rotation values.  rA is a Rotation the caller holds; each call *)
(* leaves its result in rRes, rVec or rPt.  A binary call takes the        *)
(* Rotation returned last as its right operand and records it in rB; a     *)
(* returned Rotation can be kept as the new rA.                            *)

Call(op) == [op |-> op, vc |-> <<>>, begin |-> NoPoint, end |-> NoPoint,
             prop |-> 0, rows |-> <<>>]

RotInit ==
    /\ rA = identity
    /\ rB = NoRot
    /\ rRes = identity
    /\ rVec = <<>>
    /\ rPt = NoPoint
    /\ rCall = Call("identity")
    /\ ObsIdle

\* Rotation(axis, angle) and Rotation(x, y, z, angle)
NewAxisAngle(axis, ang) ==
    /\ rRes' = AxisAngle(axis[1], axis[2], axis[3], ang)
    /\ rCall' = Call("axisAngle")
    /\ rB' = NoRot /\ rVec' = <<>> /\ rPt' = NoPoint
    /\ UNCHANGED <<rA, notRot>>

\* Rotation.identity()
NewIdentity ==
    /\ rRes' = identity
    /\ rCall' = Call("identity")
    /\ rB' = NoRot /\ rVec' = <<>> /\ rPt' = NoPoint
    /\ UNCHANGED <<rA, notRot>>

\* Rotation.moveTo(begin, end, prop)
NewMoveTo(begin, end, prop) ==
    /\ rRes' = moveTo(begin, end, prop)
    /\ rCall' = [Call("moveTo") EXCEPT !.begin = begin, !.end = end, !.prop = prop]
    /\ rB' = NoRot /\ rVec' = <<>> /\ rPt' = NoPoint
    /\ UNCHANGED <<rA, notRot>>

\* rA * rRes
Multiply ==
    /\ rRes # NoRot
    /\ rB' = rRes
    /\ rRes' = mul(rA, rRes)
    /\ rCall' = Call("mul")
    /\ rVec' = <<>> /\ rPt' = NoPoint
    /\ UNCHANGED <<rA, notRot>>

\* rA / rRes
Divide ==
    /\ rRes # NoRot
    /\ rB' = rRes
    /\ rRes' = div(rA, rRes)
    /\ rCall' = Call("div")
    /\ rVec' = <<>> /\ rPt' = NoPoint
    /\ UNCHANGED <<rA, notRot>>

\* rA.inverse
Invert ==
    /\ rRes' = inverse(rA)
    /\ rCall' = Call("inverse")
    /\ rB' = NoRot /\ rVec' = <<>> /\ rPt' = NoPoint
    /\ UNCHANGED <<rA, notRot>>

\* rA(rRes)
CallRotation ==
    /\ rRes # NoRot
    /\ rB' = rRes
    /\ rRes' = call(rA, [type |-> "Rotation", val |-> rRes]).val
    /\ rCall' = Call("callRot")
    /\ rVec' = <<>> /\ rPt' = NoPoint
    /\ UNCHANGED <<rA, notRot>>

\* rA(vc)
CallVector(vc) ==
    /\ rVec' = call(rA, [type |-> "Vector", val |-> vc]).val
    /\ rCall' = [Call("callVec") EXCEPT !.vc = vc]
    /\ rB' = NoRot /\ rRes' = NoRot /\ rPt' = NoPoint
    /\ UNCHANGED <<rA, notRot>>

\* rA(pt)
CallPoint(pt) ==
    /\ rPt' = call(rA, [type |-> "SpherePoint", val |-> pt]).val
    /\ rCall' = [Call("callPt") EXCEPT !.begin = pt]
    /\ rB' = NoRot /\ rRes' = NoRot /\ rVec' = <<>>
    /\ UNCHANGED <<rA, notRot>>

\* the caller keeps the returned Rotation as rA
Store ==
    /\ rRes # NoRot
    /\ rA' = rRes
    /\ rCall' = Call("store")
    /\ rB' = NoRot /\ rVec' = <<>> /\ rPt' = NoPoint
    /\ UNCHANGED <<rRes, notRot>>

RotNext ==
    \/ \E axis \in AxisVectors, ang \in Angles : NewAxisAngle(axis, ang)
    \/ NewIdentity
    \/ \E b \in Points, e \in Points, p \in Props : NewMoveTo(b, e, p)
    \/ Multiply
    \/ Divide
    \/ Invert
    \/ CallRotation
    \/ \E vc \in AxisVectors : CallVector(vc)
    \/ \E pt \in Points : CallPoint(pt)
    \/ Store

SpecRot == RotInit /\ [][RotNext]_vars

----------------------------------------------------------------------------
(* Direct construction of a Rotation from three rows, for every matrix     *)
(* with small integer entries.                                             *)

\* matrix entries range over -1 .. MaxEntry
MaxEntry == 1

Rows == Vec(-1, MaxEntry)

MatInit ==
    /\ rA = identity
    /\ rB = NoRot
    /\ rRes = NoRot
    /\ rVec = <<>>
    /\ rPt = NoPoint
    /\ \E r1 \in Rows, r2 \in Rows, r3 \in Rows :
          rCall = [Call("rows") EXCEPT !.rows = <<r1, r2, r3>>]
    /\ ObsIdle

\* Rotation(r1, r2, r3)
NewFromRows ==
    /\ rCall.op = "rows"
    /\ rRes' = FromRows(rCall.rows[1], rCall.rows[2], rCall.rows[3])
    /\ rCall' = [rCall EXCEPT !.op = "fromRows"]
    /\ UNCHANGED <<rA, rB, rVec, rPt, notRot>>

MatNext == NewFromRows

SpecMatrix == MatInit /\ [][MatNext]_vars

----------------------------------------------------------------------------
(* Properties of Rotation *)

cross(u, v) ==
    <<u[2] * v[3] - u[3] * v[2], u[3] * v[1] - u[1] * v[3], u[1] * v[2] - u[2] * v[1]>>

\* the rows of m are unit length and pairwise orthogonal
RowsOrthonormal(m) ==
    \A i \in 1..3, j \in 1..3 : dot(m[i], m[j]) = (IF i = j THEN 1 ELSE 0)

\* m is a proper rotation matrix: orthonormal rows, right-handed
IsProperRotation(m) == RowsOrthonormal(m) /\ dot(m[1], cross(m[2], m[3])) = 1

\* C1: (A * B).rotate(v) = A.rotate(B.rotate(v)) for every vector v: the
\* product applies B first and then A.
C1_MulAppliesRightFirst ==
    rCall.op = "mul" =>
        /\ rRes # NoRot
        /\ \A v \in Probes : rotate(rRes, v) = rotate(rA, rotate(rB, v))

\* a product of two Rotations that do not commute
C1_Witness ==
    /\ rCall.op = "mul"
    /\ rRes # NoRot
    /\ \E v \in Probes : rotate(rA, rotate(rB, v)) # rotate(rB, rotate(rA, v))

\* C5: moveTo(A, B, 1) returns a Rotation that maps A to B, and
\* moveTo(A, B, 0) a Rotation that maps A to A, for all points A and B.
C5_MoveToMaps ==
    rCall.op = "moveTo" =>
        /\ rRes # NoRot
        /\ rCall.prop = 1 =>
              Vector(rotatePt(rRes, rCall.begin)) = Vector(rCall.end)
        /\ rCall.prop = 0 =>
              Vector(rotatePt(rRes, rCall.begin)) = Vector(rCall.begin)

\* C6: every Rotation obtained by axis-angle construction, identity,
\* moveTo, multiplication, division, inverse or conjugation has unit,
\* pairwise orthogonal rows and determinant +1, and so passes the checks
\* of direct matrix construction.
C6_AlwaysProper ==
    \A r \in {rA, rB, rRes} :
        r # NoRot => IsProperRotation(r) /\ FromRows(r[1], r[2], r[3]) = r

\* a conjugate that differs from the Rotation conjugated
C6_Witness ==
    /\ rCall.op = "callRot"
    /\ rRes # NoRot
    /\ rRes # rB
    /\ rRes # identity

\* C7: direct construction from three rows raises ValueError when the
\* determinant is not 1, a row is not unit length or two rows are not
\* orthogonal, and succeeds, keeping the rows, for every proper rotation
\* matrix.
C7_RowsValidated ==
    rCall.op = "fromRows" =>
        /\ rRes = NoRot <=> ~IsProperRotation(rCall.rows)
        /\ rRes # NoRot => rRes = rCall.rows

\* a reflection (orthonormal rows, determinant -1) was rejected
C7_Witness ==
    /\ rCall.op = "fromRows"
    /\ RowsOrthonormal(rCall.rows)
    /\ dot(rCall.rows[1], cross(rCall.rows[2], rCall.rows[3])) = -1
    /\ rRes = NoRot

\* C8: A.inverse is the transpose of A, A / B equals A * B.inverse, and
\* A * A.inverse and A / A leave every vector unchanged.
C8_InverseAndDivision ==
    /\ rCall.op = "inverse" =>
          /\ rRes # NoRot
          /\ \A i \in 1..3, j \in 1..3 : rRes[i][j] = rA[j][i]
    /\ rCall.op = "div" => rRes # NoRot /\ rRes = mul(rA, inverse(rB))
    /\ \A v \in Probes :
          /\ rotate(mul(rA, inverse(rA)), v) = v
          /\ rotate(div(rA, rA), v) = v

\* a quotient of two different Rotations, the divisor not its own inverse
C8_Witness ==
    /\ rCall.op = "div"
    /\ rRes # NoRot
    /\ rA # rB
    /\ inverse(rB) # rB

\* C9: R(A) is the conjugate R * A * R^T, i.e. R(A).rotate(v) =
\* R.rotate(A.rotate(R.inverse.rotate(v))); R on a vector or SpherePoint
\* returns the rotated vector or SpherePoint.
C9_CallConjugates ==
    /\ rCall.op = "callRot" =>
          /\ rRes # NoRot
          /\ \A v \in Probes :
                rotate(rRes, v) = rotate(rA, rotate(rB, rotate(inverse(rA), v)))
    /\ rCall.op = "callVec" =>
          \A i \in 1..3 : rVec[i] = dot(rA[i], rCall.vc)
    /\ rCall.op = "callPt" =>
          /\ rPt.ll = <<>>
          /\ \A i \in 1..3 : rPt.vec[i] = dot(rA[i], Vector(rCall.begin))

\* a conjugation by R of a Rotation A that R does not commute with
C9_Witness ==
    /\ rCall.op = "callRot"
    /\ rRes # NoRot
    /\ rRes # rB
    /\ inverse(rB) # rB

----------------------------------------------------------------------------
(* Rotator of the observer's body: the transform from the reference frame  *)
(* to horizontal coordinates at a time and location.  One unit of time is  *)
(* a quarter of the sidereal period, the epoch is time 0 and the pole is   *)
(* the reference pole.  The Rotator's single-entry memo returns what the   *)
(* computation returns and is not represented.                             *)

\* the fixed transform for an observer location: move the location's
\* longitude to the anti-origin side, then tilt by its co-latitude
Rotator_toHoriz(loc) ==
    mul(AxisAngle(0, 1, 0, 1 - Lat(loc)), AxisAngle(0, 0, 1, 2 - Long(loc)))

\* Rotator.__call__(time, loc)
Rotator_rotation(tm, loc) == mul(Rotator_toHoriz(loc), AxisAngle(0, 0, 1, tm))

----------------------------------------------------------------------------
(* Observer *)

Times == 0..MaxTime

\* locations an Observer is constructed at
Locs == {SpherePoint(0, 0), SpherePoint(1, 1)}

\* the (width, height) an Observer is constructed with, in quarter turns
Windows == {<<2, 1>>}

\* Observer.__init__
ObsInit ==
    /\ view = identity
    /\ otime \in Times
    /\ oloc \in Locs
    /\ win \in Windows
    /\ now = 0
    /\ \E sync \in BOOLEAN : offset = IF sync THEN <<otime - now>> ELSE <<>>
    /\ toViewC = <<>>
    /\ oCall = OCall("init")
    /\ rA = identity /\ rB = NoRot /\ rRes = NoRot
    /\ rVec = <<>> /\ rPt = NoPoint /\ rCall = Call("none")
    /\ CatIdle
    /\ VisIdle
    /\ AngIdle

\* Observer.lookUp composing the new rotation on the right
lookUp_right(angle) ==
    /\ view' = mul(view, AxisAngle(0, 1, 0, angle))
    /\ toViewC' = <<>>
    /\ oCall' = [OCall("lookUp") EXCEPT !.angle = angle, !.prev = view]
    /\ UNCHANGED <<otime, oloc, win, offset, now, notObs>>

\* Observer.lookUp
lookUp(angle) ==
    /\ view' = mul(AxisAngle(0, 1, 0, angle), view)
    /\ toViewC' = <<>>
    /\ oCall' = [OCall("lookUp") EXCEPT !.angle = angle, !.prev = view]
    /\ UNCHANGED <<otime, oloc, win, offset, now, notObs>>

\* Observer.lookRight
lookRight(angle) ==
    /\ view' = mul(AxisAngle(0, 0, 1, angle), view)
    /\ toViewC' = <<>>
    /\ oCall' = [OCall("lookRight") EXCEPT !.angle = angle, !.prev = view]
    /\ UNCHANGED <<otime, oloc, win, offset, now, notObs>>

\* Observer.lookClock that turns about the vertical axis
lookClock_vertical(angle) ==
    /\ view' = mul(AxisAngle(0, 0, 1, angle), view)
    /\ toViewC' = <<>>
    /\ oCall' = [OCall("lookClock") EXCEPT !.angle = angle, !.prev = view]
    /\ UNCHANGED <<otime, oloc, win, offset, now, notObs>>

\* Observer.lookClock
lookClock(angle) ==
    /\ view' = mul(AxisAngle(-1, 0, 0, angle), view)
    /\ toViewC' = <<>>
    /\ oCall' = [OCall("lookClock") EXCEPT !.angle = angle, !.prev = view]
    /\ UNCHANGED <<otime, oloc, win, offset, now, notObs>>

\* Observer.lookTo; when Rotation.moveTo raises, nothing is assigned
lookTo(point, prop) ==
    LET appar == call(view, [type |-> "SpherePoint", val |-> point]).val
        move == moveTo(appar, SpherePoint(0, 0), prop)
    IN  /\ oCall' = [OCall("lookTo") EXCEPT !.point = point, !.prop = prop,
                                            !.raised = (move = NoRot)]
            /\ IF move = NoRot
           THEN UNCHANGED <<view, toViewC>>
           ELSE view' = mul(move, view) /\ toViewC' = <<>>
        /\ UNCHANGED <<otime, oloc, win, offset, now, notObs>>

\* Observer.time setter that keeps the memoized transform
time_setter_keep(tm) ==
    /\ otime' = tm
    /\ UNCHANGED toViewC

\* Observer.time setter
time_setter(tm) ==
    /\ otime' = tm
    /\ toViewC' = <<>>

\* observer.time = tm
setTime(tm) ==
    /\ time_setter(tm)
    /\ oCall' = OCall("setTime")
    /\ UNCHANGED <<view, oloc, win, offset, now, notObs>>

\* Observer.updateTime that follows the clock without an offset
updateTime_unsynced ==
    /\ (IF offset # <<>> THEN offset[1] + now ELSE now) \in Times
    /\ time_setter(IF offset # <<>> THEN offset[1] + now ELSE now)
    /\ oCall' = OCall("updateTime")
    /\ UNCHANGED <<view, oloc, win, offset, now, notObs>>

\* Observer.updateTime
updateTime ==
    /\ offset # <<>> => offset[1] + now \in Times
    /\ IF offset # <<>>
       THEN time_setter(offset[1] + now)
       ELSE UNCHANGED <<otime, toViewC>>
    /\ oCall' = OCall("updateTime")
    /\ UNCHANGED <<view, oloc, win, offset, now, notObs>>

\* Observer.toHoriz
toHoriz == Rotator_rotation(otime, oloc)

\* Observer.toView; the Rotation returned is the new value of __toView
readToView ==
    /\ toViewC' = IF toViewC = <<>>
                  THEN mul(view, Rotator_rotation(otime, oloc))
                  ELSE toViewC
    /\ oCall' = OCall("toView")
    /\ UNCHANGED <<view, otime, oloc, win, offset, now, notObs>>

\* the clock advances
Tick ==
    /\ now < MaxTime
    /\ now' = now + 1
    /\ oCall' = OCall("tick")
    /\ UNCHANGED <<view, otime, oloc, win, offset, toViewC, notObs>>

\* Observer.center
center == call(inverse(view), [type |-> "SpherePoint", val |-> SpherePoint(0, 0)]).val

\* Observer.horizToWindow: the fractions x = (width - 2 long) / (2 width)
\* and y = (height - 2 lat) / (2 height), each as <<numerator, denominator>>
horizToWindow(pt) ==
    LET point == call(view, [type |-> "SpherePoint", val |-> pt]).val
    IN  << <<win[1] - 2 * Long(point), 2 * win[1]>>,
           <<win[2] - 2 * Lat(point), 2 * win[2]>> >>

ObsNext ==
    \/ \E a \in Angles : lookUp(a)
    \/ \E a \in Angles : lookRight(a)
    \/ \E a \in Angles : lookClock(a)
    \/ \E pt \in Points, prop \in Props : lookTo(pt, prop)
    \/ \E tm \in Times : setTime(tm)
    \/ updateTime
    \/ readToView
    \/ Tick

Spec == ObsInit /\ [][ObsNext]_vars

----------------------------------------------------------------------------
(* Properties of Observer *)

\* where a Rotation sends the point pt, as a unit vector
Seen(rot, pt) == Vector(call(rot, [type |-> "SpherePoint", val |-> pt]).val)

\* C2: every read of toView returns the current view composed with toHoriz
\* at the current time and location, toHoriz applied first; a value
\* memoized before a change of view or time is never returned afterwards,
\* that is, a memoized value is always the current one.
C2_ToViewIsCurrent ==
    /\ toViewC # <<>> => toViewC = mul(view, toHoriz)
    /\ oCall.op = "toView" =>
          /\ toViewC # <<>>
          /\ \A v \in Probes :
                rotate(toViewC, v) = rotate(view, rotate(toHoriz, v))

\* toView read after the view was turned and at a time after the epoch,
\* where view and toHoriz do not commute
C2_Witness ==
    /\ oCall.op = "toView"
    /\ view # identity
    /\ otime > 0
    /\ mul(view, toHoriz) # mul(toHoriz, view)

\* the view after a look call is rot * (the view before): every point is
\* first seen through the old view and then turned by rot
C3_Turned(rot) ==
    /\ view = mul(rot, oCall.prev)
    /\ \A p \in Points : Seen(view, p) = rotate(rot, Seen(oCall.prev, p))

\* C3: after lookUp(a), lookRight(a) or lookClock(a) the new view is
\* R * (old view), R the rotation by a about (0,1,0), (0,0,1) or (-1,0,0):
\* new_view(p) = R(old_view(p)) for every point p.
C3_LookComposesOnLeft ==
    /\ oCall.op = "lookUp" => C3_Turned(AxisAngle(0, 1, 0, oCall.angle))
    /\ oCall.op = "lookRight" => C3_Turned(AxisAngle(0, 0, 1, oCall.angle))
    /\ oCall.op = "lookClock" => C3_Turned(AxisAngle(-1, 0, 0, oCall.angle))

\* a lookUp whose rotation does not commute with the view it was applied to
C3_Witness ==
    /\ oCall.op = "lookUp"
    /\ LET rot == AxisAngle(0, 1, 0, oCall.angle)
       IN  mul(rot, oCall.prev) # mul(oCall.prev, rot)

\* C4: for every reachable view and every point p, lookTo(p, 1) completes
\* and afterwards center is p and horizToWindow(p) is (0.5, 0.5).
C4_LookToCentres ==
    (oCall.op = "lookTo" /\ oCall.prop = 1) =>
        /\ ~oCall.raised
        /\ Vector(center) = Vector(oCall.point)
        /\ \A i \in 1..2 :
              2 * horizToWindow(oCall.point)[i][1] = horizToWindow(oCall.point)[i][2]

----------------------------------------------------------------------------
(* NamedMixin (utils.py) *)

\* str.lower on the names that occur
Lower(s) ==
    CASE s = "Sol" -> "sol"
      [] s = "Sun" -> "sun"
      [] s = "Earth" -> "earth"
      [] s = "EARTH" -> "earth"
      [] s = "Terra" -> "terra"
      [] s = "TERRA" -> "terra"
      [] s = "Tellus" -> "tellus"
      [] s = "Luna" -> "luna"
      [] s = "Moon" -> "moon"
      [] s = "Polaris" -> "polaris"
      [] s = "moon" -> "moon"
      [] s = "Mars" -> "mars"
      [] OTHER -> s

\* NamedMixin.__lowered
lowered(obj) == {Lower(al) : al \in obj.aliases} \cup {Lower(obj.name)}

\* NamedMixin.__eq__: the two objects share a name or alias, ignoring case
NamedMixin_eq(self, other) == lowered(self) \cap lowered(other) # {}

\* NamedMixin.__contains__
NamedMixin_contains(self, name) == Lower(name) \in lowered(self)

----------------------------------------------------------------------------
(* Orbit is not part of the sources at hand; it is modelled from the       *)
(* description of the orbit propagator: a circular orbit in the reference  *)
(* plane with a period of four time units, radius a and mean anomaly m0    *)
(* quarter turns at time 0.  Inclination and obliquity are zero and the    *)
(* single-entry memo, which returns what the computation returns, is not   *)
(* represented.                                                            *)

\* Orbit.__call__(time): the offset from the parent body
Orbit_position(orb, tm) ==
    <<orb.a * Cos(tm + orb.m0), orb.a * Sin(tm + orb.m0), 0>>

----------------------------------------------------------------------------
(* Body, Stellar and Catalog (objects.py) *)

\* the objects of a catalog are at most MaxObjects
MaxObjects == 3

\* a <body> element: parentName is <<>> when the attribute is absent
BodyDoc(name, aliases, parentName, a, m0) ==
    [kind |-> "Body", name |-> name, aliases |-> aliases,
     parentName |-> parentName, orbit |-> [a |-> a, m0 |-> m0],
     point |-> NoPoint]

\* a <stellar> element
StellarDoc(name, aliases, decl, right_asc) ==
    [kind |-> "Stellar", name |-> name, aliases |-> aliases,
     parentName |-> <<>>, orbit |-> [a |-> 0, m0 |-> 0],
     point |-> SpherePoint(decl, right_asc)]

\* the elements that catalog files hold
Documents ==
    { BodyDoc("Sol", {"Sun"}, <<>>, 0, 0),
      BodyDoc("Earth", {"Terra"}, <<"sun">>, 2, 0),
      BodyDoc("Tellus", {"terra"}, <<"Sol">>, 1, 1),
      BodyDoc("Luna", {"Moon"}, <<"Earth">>, 1, 0),
      BodyDoc("EARTH", {}, <<"Sol">>, 2, 1),
      StellarDoc("Polaris", {"Moon"}, 1, 0) }

\* the keys that entries are deleted by
Keys == {"TERRA", "moon", "Mars"}

\* Catalog.__iter__: the identities of the entries
Entries == {bodies[i] : i \in DOMAIN bodies} \cup {stellars[i] : i \in DOMAIN stellars}

\* the entries of a list that Catalog.__delitem__(key) leaves in it
Remaining(lst, h, key) == SelectSeq(lst, LAMBDA id : ~NamedMixin_contains(h[id], key))

\* Catalog.getBody that returns the first Body whatever its names
Catalog_getBody_first(key) == IF bodies = <<>> THEN 0 ELSE bodies[1]

\* Catalog.getBody: the first Body holding key, 0 when it raises KeyError
Catalog_getBody(key) ==
    LET hits == {i \in DOMAIN bodies : NamedMixin_contains(heap[bodies[i]], key)}
    IN  IF hits = {} THEN 0
        ELSE bodies[CHOOSE i \in hits : \A j \in hits : i <= j]

\* Body.position(time) on the objects h: the position returned and the
\* objects with the memos it assigned
RECURSIVE Body_position(_, _, _)

\* Body.position that returns its memo whatever time it was stored for
Body_position_stale(h, self, tm) ==
    IF h[self].parent = 0
    THEN [heap |-> h, pos |-> <<0, 0, 0>>]
    ELSE IF h[self].memo # <<>>
    THEN [heap |-> h, pos |-> h[self].memo[2]]
    ELSE LET off == Orbit_position(h[self].orbit, tm)
             par == Body_position(h, h[self].parent, tm)
             pos == <<off[1] + par.pos[1], off[2] + par.pos[2], off[3] + par.pos[3]>>
         IN  [heap |-> [par.heap EXCEPT ![self].memo = <<tm, pos>>], pos |-> pos]

Body_position(h, self, tm) ==
    IF h[self].parent = 0
    THEN [heap |-> h, pos |-> <<0, 0, 0>>]
    ELSE IF h[self].memo # <<>> /\ h[self].memo[1] = tm
    THEN [heap |-> h, pos |-> h[self].memo[2]]
    ELSE LET off == Orbit_position(h[self].orbit, tm)
             par == Body_position(h, h[self].parent, tm)
             pos == <<off[1] + par.pos[1], off[2] + par.pos[2], off[3] + par.pos[3]>>
         IN  [heap |-> [par.heap EXCEPT ![self].memo = <<tm, pos>>], pos |-> pos]

\* Catalog() with no Observer
CatInit ==
    /\ CatIdle
    /\ VisIdle
    /\ AngIdle
    /\ view = identity /\ otime = 0 /\ oloc = SpherePoint(0, 0)
    /\ win = <<2, 1>> /\ offset = <<>> /\ toViewC = <<>> /\ now = 0
    /\ oCall = OCall("none")
    /\ rA = identity /\ rB = NoRot /\ rRes = NoRot
    /\ rVec = <<>> /\ rPt = NoPoint /\ rCall = Call("none")

\* one element of Catalog.load: Body(xml, getBody) or Stellar(xml), then
\* Catalog.append, which deletes the entries holding the new name
Load(doc) ==
    LET named == doc.kind = "Body" /\ doc.parentName # <<>>
        parent == IF named THEN Catalog_getBody(doc.parentName[1]) ELSE 0
        id == Len(heap) + 1
        obj == [kind |-> doc.kind, name |-> doc.name, aliases |-> doc.aliases,
                parent |-> parent, orbit |-> doc.orbit, point |-> doc.point,
                memo |-> <<>>]
        h == Append(heap, obj)
        keptB == Remaining(bodies, h, doc.name)
        keptS == Remaining(stellars, h, doc.name)
    IN  /\ Len(heap) < MaxObjects
        /\ IF named /\ parent = 0
           THEN /\ cCall' = [CCall("load") EXCEPT
                                !.key = doc.name, !.raised = TRUE,
                                !.prev = <<bodies, stellars>>,
                                !.parentName = doc.parentName]
                /\ UNCHANGED <<heap, bodies, stellars>>
           ELSE /\ heap' = h
                /\ bodies' = IF doc.kind = "Body" THEN Append(keptB, id) ELSE keptB
                /\ stellars' = IF doc.kind = "Stellar" THEN Append(keptS, id) ELSE keptS
                /\ cCall' = [CCall("load") EXCEPT
                                !.key = doc.name, !.obj = id,
                                !.ret = (keptB # bodies \/ keptS # stellars),
                                !.prev = <<bodies, stellars>>,
                                !.parentName = doc.parentName]
        /\ UNCHANGED <<obody, refRet, view, otime, oloc, win, offset, toViewC,
                       oCall, notCat>>

\* del catalog[key]
Delete(key) ==
    LET keptB == Remaining(bodies, heap, key)
        keptS == Remaining(stellars, heap, key)
    IN  /\ bodies' = keptB
        /\ stellars' = keptS
        /\ cCall' = [CCall("delete") EXCEPT
                        !.key = key,
                        !.raised = (keptB = bodies /\ keptS = stellars),
                        !.prev = <<bodies, stellars>>]
        /\ UNCHANGED <<heap, obody, refRet, view, otime, oloc, win, offset,
                       toViewC, oCall, notCat>>

\* Catalog.__getitem__ searching the bodies only
Catalog_getitem_bodies(key) ==
    LET lst == bodies
        hits == {i \in DOMAIN lst : NamedMixin_contains(heap[lst[i]], key)}
    IN  IF hits = {} THEN 0
        ELSE lst[CHOOSE i \in hits : \A j \in hits : i <= j]

\* Catalog.__getitem__: the first entry of bodies + stellars holding key,
\* 0 when it raises KeyError
Catalog_getitem(key) ==
    LET lst == bodies \o stellars
        hits == {i \in DOMAIN lst : NamedMixin_contains(heap[lst[i]], key)}
    IN  IF hits = {} THEN 0
        ELSE lst[CHOOSE i \in hits : \A j \in hits : i <= j]

\* catalog[key]
Lookup(key) ==
    /\ cCall' = [CCall("getitem") EXCEPT
                    !.key = key,
                    !.obj = Catalog_getitem(key),
                    !.raised = (Catalog_getitem(key) = 0),
                    !.prev = <<bodies, stellars>>]
    /\ UNCHANGED <<heap, bodies, stellars, obody, refRet, view, otime, oloc,
                   win, offset, toViewC, oCall, notCat>>

\* Observer(time, SpherePoint(0, 0), body) with the default window
NewObserver(body, tm) ==
    /\ obody' = body
    /\ view' = identity
    /\ otime' = tm
    /\ oloc' = SpherePoint(0, 0)
    /\ win' = <<2, 1>>
    /\ offset' = <<>>
    /\ toViewC' = <<>>
    /\ oCall' = OCall("init")
    /\ byX' = <<>>
    /\ byY' = <<>>
    /\ cCall' = [CCall("observer") EXCEPT !.obj = body]
    /\ UNCHANGED <<heap, bodies, stellars, refRet, rotVars, now, winRet, calls,
                   posVars, angVars, sphVars, extVars>>

\* Observer.toRef(obj): the point returned (NoPoint for None) and the
\* objects with the memos that Body.position assigned
Observer_toRef(obj) ==
    IF heap[obj].kind = "Body"
    THEN IF NamedMixin_eq(heap[obj], heap[obody])
         THEN [ret |-> NoPoint, heap |-> heap]
         ELSE LET there == Body_position(heap, obj, otime)
                  here == Body_position(there.heap, obody, otime)
              IN  [ret |-> SpherePointXYZ(there.pos[1] - here.pos[1],
                                          there.pos[2] - here.pos[2],
                                          there.pos[3] - here.pos[3]),
                   heap |-> here.heap]
    ELSE [ret |-> heap[obj].point, heap |-> heap]

\* observer.toRef(obj)
toRef(obj) ==
    /\ obody # 0
    /\ cCall' = [CCall("toRef") EXCEPT !.obj = obj]
    /\ refRet' = Observer_toRef(obj).ret
    /\ heap' = Observer_toRef(obj).heap
    /\ UNCHANGED <<bodies, stellars, obody, view, otime, oloc, win, offset,
                   toViewC, oCall, notCat>>

CatNext ==
    \/ \E doc \in Documents : Load(doc)
    \/ \E key \in Keys : Delete(key)
    \/ \E key \in Keys : Lookup(key)
    \/ \E i \in DOMAIN bodies : NewObserver(bodies[i], 0)
    \/ \E obj \in Entries : toRef(obj)

SpecCatalog == CatInit /\ [][CatNext]_vars

----------------------------------------------------------------------------
(* The visible lists of the Observer (observer.py).  Window coordinates    *)
(* are fractions <<numerator, denominator>> with a positive denominator.   *)

\* at most MaxCalls calls of objToWindow between two clearVisible
MaxCalls == 3

\* p < q for fractions
FracLess(p, q) == p[1] * q[2] < q[1] * p[2]

\* 0 <= p < 1 for a fraction
InUnit(p) == 0 <= p[1] /\ p[1] < p[2]

\* the object Body(xml) or Stellar(xml) constructs, parent an identity or 0
NewObject(doc, parent) ==
    [kind |-> doc.kind, name |-> doc.name, aliases |-> doc.aliases,
     parent |-> parent, orbit |-> doc.orbit, point |-> doc.point,
     memo |-> <<>>]

\* a catalog after loading a primary, a planet and three stars
SkyObjects ==
    << NewObject(BodyDoc("Sol", {"Sun"}, <<>>, 0, 0), 0),
       NewObject(BodyDoc("Earth", {"Terra"}, <<"sun">>, 2, 0), 1),
       NewObject(StellarDoc("Polaris", {}, 1, 0), 0),
       NewObject(StellarDoc("Vega", {}, 0, 1), 0),
       NewObject(StellarDoc("Sirius", {}, 0, 2), 0) >>

\* the (width, height) of the window, in quarter turns
SkyWindow == <<3, 3>>

\* Observer.__addVisible that puts the new entry last
addVisible_last(lst, c, obj) == Append(lst, <<c, obj>>)

\* Observer.__addVisible on one of the two lists: the entry goes before
\* the first entry whose coordinate is not less than c
addVisible(lst, c, obj) ==
    LET stops == {i \in DOMAIN lst : ~FracLess(lst[i][1], c)}
        ind == IF stops = {} THEN Len(lst)
               ELSE (CHOOSE i \in stops : \A j \in stops : i <= j) - 1
    IN  SubSeq(lst, 1, ind) \o <<<<c, obj>>>> \o SubSeq(lst, ind + 1, Len(lst))

\* Observer(time, loc, body, wid, hei) standing on the primary
VisInit ==
    /\ heap = SkyObjects
    /\ bodies = <<1, 2>>
    /\ stellars = <<3, 4, 5>>
    /\ obody = 1
    /\ refRet = NoPoint
    /\ cCall = [CCall("observer") EXCEPT !.obj = 1]
    /\ VisIdle
    /\ AngIdle
    /\ view = identity /\ otime = 0 /\ oloc = SpherePoint(0, 0)
    /\ win = SkyWindow /\ offset = <<>> /\ toViewC = <<>> /\ now = 0
    /\ oCall = OCall("init")
    /\ rA = identity /\ rB = NoRot /\ rRes = NoRot
    /\ rVec = <<>> /\ rPt = NoPoint /\ rCall = Call("none")

\* Observer.clearVisible
clearVisible ==
    /\ byX' = <<>>
    /\ byY' = <<>>
    /\ calls' = <<>>
    /\ oCall' = OCall("clearVisible")
    /\ sCall' = NoSelect
    /\ UNCHANGED <<winRet, view, otime, oloc, win, offset, toViewC, now,
                   rotVars, catVars, posVars, angVars, sphVars, selected,
                   arVars, axVars, llVars, celVars, nmVars>>

\* Observer.objToWindow(obj)
objToWindow(obj) ==
    LET ref == Observer_toRef(obj)
        tv == IF toViewC = <<>> THEN mul(view, toHoriz) ELSE toViewC
        point == call(tv, [type |-> "SpherePoint", val |-> ref.ret]).val
        x == <<win[1] - 2 * Long(point), 2 * win[1]>>
        y == <<win[2] - 2 * Lat(point), 2 * win[2]>>
    IN  /\ Len(calls) < MaxCalls
        /\ oCall' = OCall("objToWindow")
        /\ IF ref.ret = NoPoint
           THEN /\ winRet' = << <<-1, 1>>, <<-1, 1>> >>
                /\ UNCHANGED <<byX, byY, toViewC, heap>>
           ELSE /\ winRet' = <<x, y>>
                /\ toViewC' = tv
                /\ heap' = ref.heap
                /\ IF InUnit(x) /\ InUnit(y)
                   THEN /\ byX' = addVisible(byX, x, obj)
                        /\ byY' = addVisible(byY, y, obj)
                   ELSE UNCHANGED <<byX, byY>>
        /\ calls' = Append(calls, [obj |-> obj, ret |-> winRet'])
        /\ UNCHANGED <<view, otime, oloc, win, offset, now, rotVars,
                       bodies, stellars, obody, refRet, cCall, posVars,
                       angVars, sphVars, extVars>>

VisNext ==
    \/ clearVisible
    \/ \E obj \in Entries : objToWindow(obj)
    \/ lookRight(1)

SpecVisible == VisInit /\ [][VisNext]_vars

----------------------------------------------------------------------------
(* Properties of the visible lists *)

\* the calls since the last clearVisible that returned window coordinates
\* with 0 <= x < 1 and 0 <= y < 1
InWindow == SelectSeq(calls, LAMBDA c : InUnit(c.ret[1]) /\ InUnit(c.ret[2]))

\* how often entry e occurs in the list lst
Occurs(lst, e) == Cardinality({i \in DOMAIN lst : lst[i] = e})

\* the list is in non-decreasing order of coordinate
Ordered(lst) ==
    \A i \in DOMAIN lst, j \in DOMAIN lst : i < j => ~FracLess(lst[j][1], lst[i][1])

\* C11: after clearVisible and any objToWindow calls, the by-x and the
\* by-y list hold exactly the objects whose returned coordinates were in
\* the window, one entry per such call, the by-x list in non-decreasing x
\* order and the by-y list in non-decreasing y order; an object outside
\* the window or not displayable is not recorded.
C11_VisibleLists ==
    LET xs == [i \in DOMAIN InWindow |-> <<InWindow[i].ret[1], InWindow[i].obj>>]
        ys == [i \in DOMAIN InWindow |-> <<InWindow[i].ret[2], InWindow[i].obj>>]
    IN  /\ Len(byX) = Len(InWindow)
        /\ Len(byY) = Len(InWindow)
        /\ \A i \in DOMAIN xs : Occurs(byX, xs[i]) = Occurs(xs, xs[i])
        /\ \A i \in DOMAIN ys : Occurs(byY, ys[i]) = Occurs(ys, ys[i])
        /\ Ordered(byX)
        /\ Ordered(byY)

\* three calls: one returned coordinates outside the window or was not
\* displayable, and the two objects recorded stand in one order by x and
\* in the other by y, the later call first by x
C11_Witness ==
    /\ Len(calls) = 3
    /\ Len(byX) = 2
    /\ byX[1][2] # byY[1][2]
    /\ FracLess(byX[1][1], byX[2][1])
    /\ FracLess(byY[1][1], byY[2][1])
    /\ \E i \in 1..2 : calls[i].obj = byX[2][2] /\ calls[i + 1].obj = byX[1][2]

----------------------------------------------------------------------------
(* Queries of Body.position on the bodies of a loaded catalog *)

\* a catalog after loading a primary, two planets and a moon
ChainObjects ==
    << NewObject(BodyDoc("Sol", {"Sun"}, <<>>, 0, 0), 0),
       NewObject(BodyDoc("Earth", {"Terra"}, <<"sun">>, 2, 0), 1),
       NewObject(BodyDoc("Luna", {"Moon"}, <<"Earth">>, 1, 0), 2),
       NewObject(BodyDoc("Tellus", {"terra"}, <<"Sol">>, 1, 1), 1) >>

PosInit ==
    /\ heap = ChainObjects
    /\ bodies = <<1, 2, 3, 4>>
    /\ stellars = <<>>
    /\ obody = 0
    /\ refRet = NoPoint
    /\ cCall = CCall("none")
    /\ VisIdle
    /\ AngIdle
    /\ view = identity /\ otime = 0 /\ oloc = SpherePoint(0, 0)
    /\ win = <<2, 1>> /\ offset = <<>> /\ toViewC = <<>> /\ now = 0
    /\ oCall = OCall("none")
    /\ rA = identity /\ rB = NoRot /\ rRes = NoRot
    /\ rVec = <<>> /\ rPt = NoPoint /\ rCall = Call("none")

\* body.position(tm); hit records that the memo was returned
Position(body, tm) ==
    LET res == Body_position(heap, body, tm)
    IN  /\ heap' = res.heap
        /\ posRet' = [obj |-> body, time |-> tm, pos |-> res.pos,
                      hit |-> (heap[body].memo # <<>> /\ heap[body].memo[1] = tm)]
        /\ UNCHANGED <<bodies, stellars, obody, refRet, cCall, obsVars,
                       rotVars, visVars, angVars, sphVars, extVars>>

PosNext == \E i \in DOMAIN bodies, tm \in Times : Position(bodies[i], tm)

SpecPosition == PosInit /\ [][PosNext]_vars

----------------------------------------------------------------------------
(* Angle (sphere.py).  An angle is counted in tenths of an arc second, so    *)
(* that every value that arises is an integer: a string carries at most    *)
(* one decimal of a second, and a tenth of an arc second is 1/150 of a     *)
(* second of time.  The seconds of a triple are counted in the same tenths *)
(* (dms) and in 1/150 of a second of time (hms); a minute is 600 of either *)
(* and 60 seconds are 600.                                                 *)

\* angles are drawn from -(MaxTurn + 1) to MaxTurn + 1 full turns
MaxTurn == 1
\* a string carries up to MaxTail characters after its seconds field
MaxTail == 1

\* one degree, in tenths of an arc second: d + m / 60 + s / 3600
Degree == 60 * 60 * 10
\* one hour: 15 degrees per hour
Hour == 15 * Degree
\* 360 degrees, which are 24 hours
Turn == 360 * Degree

\* Angle(d, m, s) and Angle(h, m, s, isHMS=True)
Angle_triple(t, isHMS) ==
    IF isHMS
    THEN Abs(t[1]) * Hour + (Abs(t[2]) * Hour) \div 60 + Abs(t[3])
    ELSE LET sign == IF t[1] < 0 THEN -1 ELSE 1
         IN  sign * (Abs(t[1]) * Degree + (Abs(t[2]) * Degree) \div 60
                     + Abs(t[3]))

\* Angle.__splitBy60(number), number = n / unit
splitBy60(n, unit) ==
    LET number == Abs(n)
        sign   == IF n < 0 THEN -1 ELSE 1
        hd     == number \div unit
        rest   == number - hd * unit
        m      == (rest * 60) \div unit
        s      == rest * 60 - m * unit
    IN  << sign * hd, m, s \div 60 >>

\* Angle.dms
Angle_dms(a) == splitBy60(((a + 180 * Degree) % Turn) - 180 * Degree, Degree)

\* Angle.hms
Angle_hms(a) == splitBy60(a % Turn, Hour)

----------------------------------------------------------------------------
(* Strings are sequences of characters *)

Digits == {"0", "1", "2", "3", "4", "5", "6", "7", "8", "9"}

\* int() of one digit
DigitVal(c) ==
    CASE c = "0" -> 0 [] c = "1" -> 1 [] c = "2" -> 2 [] c = "3" -> 3
      [] c = "4" -> 4 [] c = "5" -> 5 [] c = "6" -> 6 [] c = "7" -> 7
      [] c = "8" -> 8 [] c = "9" -> 9

\* int() of a string of digits
RECURSIVE IntOf(_)
IntOf(s) ==
    IF s = <<>> THEN 0
    ELSE IntOf(SubSeq(s, 1, Len(s) - 1)) * 10 + DigitVal(s[Len(s)])

\* the character at index i, "" past the end
At(s, i) == IF i \in DOMAIN s THEN s[i] ELSE ""

\* the length of the run of digits that starts at index i (\d greedy)
RECURSIVE DigitRun(_, _)
DigitRun(s, i) == IF At(s, i) \in Digits THEN 1 + DigitRun(s, i + 1) ELSE 0

\* the first index at or after i that holds no white space (\s*)
RECURSIVE SkipSpace(_, _)
SkipSpace(s, i) == IF At(s, i) = " " THEN SkipSpace(s, i + 1) ELSE i

\* str.lower() of one character
LowerChar(c) ==
    CASE c = "D" -> "d" [] c = "H" -> "h" [] c = "M" -> "m" [] c = "S" -> "s"
      [] c = "X" -> "x" [] OTHER -> c

\* str.lower()
lower(s) == [i \in DOMAIN s |-> LowerChar(s[i])]

\* str.strip()
RECURSIVE strip(_)
strip(s) ==
    IF s = <<>> THEN s
    ELSE IF s[1] = " " THEN strip(Tail(s))
    ELSE IF s[Len(s)] = " " THEN strip(SubSeq(s, 1, Len(s) - 1))
    ELSE s

\* float(s) of a string drawn here: white space, a sign, digits and at most
\* one point with a digit on one side; val is counted in tenths
float(str) ==
    LET s    == strip(str)
        i    == IF At(s, 1) \in {"+", "-"} THEN 2 ELSE 1
        n    == DigitRun(s, i)
        point  == At(s, i + n) = "."
        f    == IF point THEN DigitRun(s, i + n + 1) ELSE 0
        last == IF point THEN i + n + f ELSE i + n - 1
        mag  == IntOf(SubSeq(s, i, i + n - 1)) * 10
                + (IF f > 0 THEN DigitVal(s[i + n + 1]) ELSE 0)
    IN  [ ok  |-> n + f > 0 /\ last = Len(s),
          val |-> IF At(s, 1) = "-" THEN -mag ELSE mag ]

\* Angle.__angleRE.match(angstr): the five groups of
\* ([+-]?)([0123]?\d{1,2})([hHdD])\s*([0-5]?\d)[mM]\s*([0-5]?\d(?:\.\d+)?)[sS]
\* matched at the start of the string; s is counted in tenths, end is the
\* number of characters matched
angleRE_match(str) ==
    LET iw  == IF At(str, 1) \in {"+", "-"} THEN 2 ELSE 1
        nw  == DigitRun(str, iw)
        okw == nw \in 1..3 /\ (nw = 3 => At(str, iw) \in {"0", "1", "2", "3"})
        iu  == iw + nw
        oku == At(str, iu) \in {"h", "H", "d", "D"}
        im  == SkipSpace(str, iu + 1)
        nm  == DigitRun(str, im)
        okm == /\ nm \in 1..2
               /\ nm = 2 => At(str, im) \in {"0", "1", "2", "3", "4", "5"}
               /\ At(str, im + nm) \in {"m", "M"}
        is  == SkipSpace(str, im + nm + 1)
        ns  == DigitRun(str, is)
        point == At(str, is + ns) = "."
        nf  == IF point THEN DigitRun(str, is + ns + 1) ELSE 0
        ie  == is + ns + (IF point THEN 1 + nf ELSE 0)
        oks == /\ ns \in 1..2
               /\ ns = 2 => At(str, is) \in {"0", "1", "2", "3", "4", "5"}
               /\ point => nf > 0
               /\ At(str, ie) \in {"s", "S"}
    IN  IF okw /\ oku /\ okm /\ oks
        THEN [ ok   |-> TRUE,
               sign |-> IF iw = 2 THEN str[1] ELSE "",
               hd   |-> IntOf(SubSeq(str, iw, iu - 1)),
               unit |-> LowerChar(str[iu]),
               m    |-> IntOf(SubSeq(str, im, im + nm - 1)),
               s    |-> IntOf(SubSeq(str, is, is + ns - 1)) * 10
                        + (IF point THEN DigitVal(str[is + ns + 1]) ELSE 0),
               end  |-> ie ]
        ELSE [ ok |-> FALSE, sign |-> "", hd |-> 0, unit |-> "", m |-> 0,
               s |-> 0, end |-> 0 ]

\* Angle.__parseHDMS(angstr): the exception raised ("" when none) and the
\* angle returned
parseHDMS(angstr) ==
    LET g     == angleRE_match(angstr)
        isdms == g.unit = "d"
        sign  == IF g.sign # ""
                 THEN (IF g.sign = "+" THEN 1 ELSE -1)
                 ELSE 1
        deg   == IF isdms
                 THEN g.hd * Degree + (g.m * Degree) \div 60 + g.s
                 ELSE 15 * (g.hd * Degree + (g.m * Degree) \div 60 + g.s)
    IN  IF ~g.ok THEN [raised |-> "ValueError", val |-> <<>>]
        ELSE IF g.sign # "" /\ ~isdms
             THEN [raised |-> "ValueError", val |-> <<>>]
        ELSE IF g.hd < 0 \/ (IF isdms THEN 360 ELSE 24) <= g.hd
             THEN [raised |-> "ValueError", val |-> <<>>]
        ELSE IF g.m < 0 \/ 60 <= g.m
             THEN [raised |-> "ValueError", val |-> <<>>]
        ELSE IF g.s < 0 \/ 600 <= g.s
             THEN [raised |-> "ValueError", val |-> <<>>]
        ELSE [raised |-> "", val |-> <<deg>>]

\* Angle(str): a number of degrees ("90d") or a DMS / HMS string.  A bare
\* number of radians has no value in tenths of an arc second and is not
\* among the cases.
Angle_str(str) ==
    LET args  == lower(strip(str))
        isdeg == At(args, Len(args)) = "d"
        cut   == IF At(args, Len(args)) \in {"d", "r"}
                 THEN SubSeq(args, 1, Len(args) - 1)
                 ELSE args
    IN  CASE args = <<>> -> [raised |-> "IndexError", val |-> <<>>]
          [] args # <<>> /\ float(cut).ok /\ isdeg ->
                [raised |-> "", val |-> <<(float(cut).val * Degree) \div 10>>]
          [] args # <<>> /\ ~float(cut).ok -> parseHDMS(cut)

----------------------------------------------------------------------------
(* Calls on Angle *)

\* arg is the triple given, prev the Angle the call found, raised the
\* exception ("" when none)
ACall(op) == [op |-> op, arg |-> <<>>, prev |-> <<>>, raised |-> ""]

\* the numbers of degrees given to Angle(x, isdeg=True), in tenths of an
\* arc second
AngleSamples ==
    { sg * ((t * 360 + q * 90 + e) * Degree + m * 600 + s * 10) :
        sg \in {-1, 1}, t \in 0..MaxTurn, q \in 0..3, e \in {0, 1, 89},
        m \in {0, 30}, s \in {0, 15} }

RECURSIVE Junk(_)
Junk(n) == IF n = 0 THEN <<>> ELSE <<"x">> \o Junk(n - 1)

\* the strings given to Angle(str)
StrSamples ==
    { sg \o w \o u \o sp \o m \o <<"m">> \o sp \o s \o <<"s">> \o tl :
        sg \in {<<>>, <<"+">>, <<"-">>},
        w  \in {<<"0">>, <<"3">>, <<"2", "3">>, <<"2", "4">>,
                <<"3", "5", "9">>, <<"3", "6", "0">>, <<"4", "0", "0">>},
        u  \in {<<"d">>, <<"h">>, <<"D">>, <<>>},
        sp \in {<<>>, <<" ">>},
        m  \in {<<"0">>, <<"1", "4">>, <<"5", "9">>, <<"6", "0">>},
        s  \in {<<"0">>, <<"1", "5">>, <<"1", "5", ".", "6">>,
                <<"6", "0">>, <<"1", "5", ".">>},
        tl \in {Junk(n) : n \in 0..MaxTail} \cup {<<" ">>} }
    \cup { <<>>, <<" ">>, <<"x">>, <<"9", "0", "d">>,
           <<"-", "0", ".", "5", "D">>, <<"3", "d", " ", "1", "4", "m">> }

\* the caller holds a number of degrees or a string, and no Angle yet
AngInit ==
    /\ aArg \in {[kind |-> "degrees", num |-> x, str |-> <<>>] :
                    x \in AngleSamples}
               \cup {[kind |-> "str", num |-> 0, str |-> str] :
                    str \in StrSamples}
    /\ radians = <<>>
    /\ aRet = <<>>
    /\ aCall = ACall("none")
    /\ pArg = <<0, 0>>
    /\ pRet = <<>>
    /\ ExtIdle
    /\ CatIdle
    /\ VisIdle
    /\ view = identity /\ otime = 0 /\ oloc = SpherePoint(0, 0)
    /\ win = <<2, 1>> /\ offset = <<>> /\ toViewC = <<>> /\ now = 0
    /\ oCall = OCall("none")
    /\ rA = identity /\ rB = NoRot /\ rRes = NoRot
    /\ rVec = <<>> /\ rPt = NoPoint /\ rCall = Call("none")

notAng == <<rotVars, obsVars, catVars, visVars, posVars, sphVars, extVars>>

\* Angle(x, isdeg=True)
NewAngle ==
    /\ aArg.kind = "degrees"
    /\ aCall.op = "none"
    /\ radians' = <<aArg.num>>
    /\ aCall' = ACall("degrees")
    /\ UNCHANGED <<aArg, aRet, notAng>>

\* a.dms
dms ==
    /\ radians # <<>>
    /\ aRet' = Angle_dms(radians[1])
    /\ aCall' = ACall("dms")
    /\ UNCHANGED <<aArg, radians, notAng>>

\* a.hms
hms ==
    /\ radians # <<>>
    /\ aRet' = Angle_hms(radians[1])
    /\ aCall' = ACall("hms")
    /\ UNCHANGED <<aArg, radians, notAng>>

\* Angle(*a.dms) and Angle(*a.hms, isHMS=True): an Angle from the triple
\* returned last
NewAngleTriple ==
    /\ aCall.op \in {"dms", "hms"}
    /\ radians' = <<Angle_triple(aRet, aCall.op = "hms")>>
    /\ aCall' = [ACall(IF aCall.op = "hms" THEN "fromhms" ELSE "fromdms")
                    EXCEPT !.arg = aRet, !.prev = radians]
    /\ UNCHANGED <<aArg, aRet, notAng>>

\* Angle(str)
NewAngleStr ==
    /\ aArg.kind = "str"
    /\ aCall.op = "none"
    /\ LET res == Angle_str(aArg.str)
       IN  /\ radians' = res.val
           /\ aCall' = [ACall("str") EXCEPT !.raised = res.raised]
    /\ UNCHANGED <<aArg, aRet, notAng>>

AngNext ==
    \/ NewAngle
    \/ dms
    \/ hms
    \/ NewAngleTriple
    \/ NewAngleStr

SpecAngle == AngInit /\ [][AngNext]_vars

----------------------------------------------------------------------------
(* SpherePoint(lat, long) with the angles counted in units of 10 degrees *)

\* the units in a quarter turn (pi / 2)
LatUnit == 9

\* latitudes and longitudes are drawn from -MaxLat to MaxLat units
MaxLat == 40

SphInit ==
    /\ pArg \in (-MaxLat..MaxLat) \X {-MaxLat, -18, -1, 0, 17, 18, MaxLat}
    /\ pRet = <<>>
    /\ aArg = [kind |-> "none", num |-> 0, str |-> <<>>]
    /\ radians = <<>>
    /\ aRet = <<>>
    /\ aCall = ACall("none")
    /\ ExtIdle
    /\ CatIdle
    /\ VisIdle
    /\ view = identity /\ otime = 0 /\ oloc = SpherePoint(0, 0)
    /\ win = <<2, 1>> /\ offset = <<>> /\ toViewC = <<>> /\ now = 0
    /\ oCall = OCall("none")
    /\ rA = identity /\ rB = NoRot /\ rRes = NoRot
    /\ rVec = <<>> /\ rPt = NoPoint /\ rCall = Call("none")

\* SpherePoint(lat, long)
NewSpherePoint ==
    /\ pRet = <<>>
    /\ pRet' = <<normLat(pArg[1], LatUnit), normLong(pArg[2], LatUnit)>>
    /\ UNCHANGED <<pArg, rotVars, obsVars, catVars, visVars, posVars, angVars,
                   extVars>>

SphNext == NewSpherePoint

SpecSphere == SphInit /\ [][SphNext]_vars

----------------------------------------------------------------------------
(* Angle + and *.  A number added to an Angle counts radians and is drawn  *)
(* in the unit of the Angle; a number that multiplies an Angle is a plain  *)
(* factor.                                                                 *)

\* every variable of the sections above at rest
CoreIdle ==
    /\ pArg = <<0, 0>>
    /\ pRet = <<>>
    /\ aArg = [kind |-> "none", num |-> 0, str |-> <<>>]
    /\ radians = <<>>
    /\ aRet = <<>>
    /\ aCall = ACall("none")
    /\ CatIdle
    /\ VisIdle
    /\ view = identity /\ otime = 0 /\ oloc = SpherePoint(0, 0)
    /\ win = <<2, 1>> /\ offset = <<>> /\ toViewC = <<>> /\ now = 0
    /\ oCall = OCall("none")
    /\ rA = identity /\ rB = NoRot /\ rRes = NoRot
    /\ rVec = <<>> /\ rPt = NoPoint /\ rCall = Call("none")

\* the result of an operation: the exception raised ("" when none) and the
\* radians of the Angle returned
Returned(val) == [raised |-> "", val |-> <<val>>]
Raised(exc) == [raised |-> exc, val |-> <<>>]

\* Angle.__add__(self, other)
Angle_add(self, other) ==
    IF other.type \in {"int", "float"} THEN Returned(self.val + other.val)
    ELSE IF other.type = "Angle" THEN Returned(self.val + other.val)
    ELSE Raised("TypeError")

\* Angle.__mul__(self, other)
Angle_mul(self, other) ==
    IF other.type \in {"int", "float"}
    THEN Returned((self.val % Turn) * other.val)
    ELSE Raised("TypeError")

\* class Angle defines __add__ and __mul__ and no reflected method
\* (__radd__, __rmul__)
Angle_reflected == {}

\* left + right, one operand an Angle: Python calls left.__add__(right);
\* int.__add__ and float.__add__ return NotImplemented for an Angle, then
\* right.__radd__(left) is tried, and TypeError is raised when there is none
BinaryAdd(left, right) ==
    IF left.type = "Angle" THEN Angle_add(left, right)
    ELSE IF "__radd__" \in Angle_reflected THEN Angle_add(right, left)
    ELSE Raised("TypeError")

\* left * right, one operand an Angle
BinaryMul(left, right) ==
    IF left.type = "Angle" THEN Angle_mul(left, right)
    ELSE IF "__rmul__" \in Angle_reflected THEN Angle_mul(right, left)
    ELSE Raised("TypeError")

\* the radians of the Angles and the numbers that are operands
ArValues == {-Turn - 5, -Degree, -1, 0, 2, 90 * Degree, Turn + 7}

\* the caller holds two operands, at least one of them an Angle
ArInit ==
    /\ xL \in {Operand(tp, v) : tp \in {"Angle", "int", "float"}, v \in ArValues}
    /\ xR \in {Operand(tp, v) : tp \in {"Angle", "int", "float"}, v \in ArValues}
    /\ "Angle" \in {xL.type, xR.type}
    /\ xRet = <<>>
    /\ xCall = "none"
    /\ AxIdle
    /\ LlIdle
    /\ SelIdle
    /\ CelIdle
    /\ NmIdle
    /\ CoreIdle

\* xL + xR
add ==
    /\ xCall = "none"
    /\ xRet' = BinaryAdd(xL, xR)
    /\ xCall' = "add"
    /\ UNCHANGED <<xL, xR, notAr>>

\* the numbers that multiply an Angle
Factors == {-1, 0, 2}

\* xL * xR
multiply ==
    /\ xCall = "none"
    /\ \A o \in {xL, xR} : o.type # "Angle" => o.val \in Factors
    /\ xRet' = BinaryMul(xL, xR)
    /\ xCall' = "mul"
    /\ UNCHANGED <<xL, xR, notAr>>

ArNext == add \/ multiply

SpecArith == ArInit /\ [][ArNext]_vars

----------------------------------------------------------------------------
(* The three axis-angle signatures of Rotation *)

\* Rotation.__init__: the axis taken from the arguments, by signature
Rotation_axis(arg) ==
    IF arg.form = "point" THEN Vector(arg.pt) ELSE arg.axis

\* Rotation(x, y, z, angle), Rotation((x, y, z), angle), Rotation(pt, angle)
Rotation_new(arg) ==
    LET axis == Rotation_axis(arg)
    IN  AxisAngle(axis[1], axis[2], axis[3], arg.ang)

\* the caller holds an axis, as components, as a tuple or as the SpherePoint
\* made from a vector, and an angle
AxInit ==
    /\ axArg \in
        {[form |-> f, axis |-> v, pt |-> NoPoint, ang |-> a] :
            f \in {"components", "tuple"}, v \in AxisVectors, a \in Angles}
        \cup
        {[form |-> "point", axis |-> v,
          pt |-> SpherePointXYZ(v[1], v[2], v[3]), ang |-> a] :
            v \in AxisVectors, a \in Angles}
    /\ axRet = NoRot
    /\ axCall = "none"
    /\ ArIdle
    /\ LlIdle
    /\ SelIdle
    /\ CelIdle
    /\ NmIdle
    /\ CoreIdle

NewRotation ==
    /\ axCall = "none"
    /\ axRet' = Rotation_new(axArg)
    /\ axCall' = "new"
    /\ UNCHANGED <<axArg, notAx>>

AxNext == NewRotation

SpecAxis == AxInit /\ [][AxNext]_vars

----------------------------------------------------------------------------
(* SpherePoint.parseLatLong.  An angle read from a string is a number of
   tenths of a radian or a number of tenths of an arc second; turning it by
   quarter turns adds to the arc seconds, so an angle here is the sum of the
   two parts. *)

\* the angle of rad tenths of a radian plus deg tenths of an arc second
Mixed(rad, deg) == [rad |-> rad, deg |-> deg]

QuarterTurn == 90 * Degree

\* math.pi / 2 in units of 10^-5 radian
HalfPi == 157080

\* the angle in units of 10^-5 radian, for a radian part that went through
\* whole quarter turns only
Approx(x) == x.rad * 10000 + (x.deg \div QuarterTurn) * HalfPi

\* math.floor(x / (2 * math.pi))
FloorTurns(x) ==
    CASE x.rad = 0 -> x.deg \div Turn
      [] x.rad # 0 /\ x.deg % QuarterTurn = 0 -> Approx(x) \div (4 * HalfPi)

\* x > 0
Positive(x) ==
    CASE x.rad = 0 -> x.deg > 0
      [] x.rad # 0 /\ x.deg % QuarterTurn = 0 -> Approx(x) > 0

\* x + n * math.pi / 2
AddQuarters(x, n) == Mixed(x.rad, x.deg + n * QuarterTurn)

\* x % (2 * math.pi)
ModTurn(x) == AddQuarters(x, -4 * FloorTurns(x))

\* the Angle a, counted in tenths of an arc second, as a mixed angle
degrees(a) ==
    [raised |-> a.raised,
     val |-> IF a.raised = "" THEN <<Mixed(0, a.val[1])>> ELSE <<>>]

\* Angle(str), a bare number or a number with the suffix r being radians
Angle_parse(str) ==
    LET args  == lower(strip(str))
        isdeg == At(args, Len(args)) = "d"
        cut   == IF At(args, Len(args)) \in {"d", "r"}
                 THEN SubSeq(args, 1, Len(args) - 1)
                 ELSE args
    IN  IF args # <<>> /\ float(cut).ok /\ ~isdeg
        THEN [raised |-> "", val |-> <<Mixed(float(cut).val, 0)>>]
        ELSE degrees(Angle_str(str))

\* Angle.__mul__ by the int other
Angle_times(self, other) ==
    LET m == ModTurn(self) IN Mixed(m.rad * other, m.deg * other)

\* SpherePoint(lat, long) of two Angles: Normalize Long
normLongitude(long) == AddQuarters(ModTurn(AddQuarters(long, 2)), -2)

\* SpherePoint(lat, long) of two Angles: Normalize Lat
normLatitude(lat) ==
    LET lt == AddQuarters(ModTurn(AddQuarters(lat, 1)), -1)
    IN  IF Positive(AddQuarters(lt, -1))
           /\ Positive(AddQuarters(Mixed(-lt.rad, -lt.deg), 3))
        THEN Mixed(-lt.rad, 2 * QuarterTurn - lt.deg)
        ELSE lt

\* str.replace(old, new) for single characters
replace(s, old, new) == [i \in DOMAIN s |-> IF s[i] = old THEN new ELSE s[i]]

\* the cardinal letter cut from the end of a stripped field
cutCardinal(s, letters) ==
    IF s[Len(s)] \in letters THEN SubSeq(s, 1, Len(s) - 1) ELSE s

\* SpherePoint(lat * latSign, lng * lngSign) of the two Angles parsed
signedPoint(lat, latSign, lng, lngSign) ==
    IF lat.raised # ""
    THEN [raised |-> lat.raised, pt |-> <<>>]
    ELSE IF lng.raised # ""
    THEN [raised |-> lng.raised, pt |-> <<>>]
    ELSE [raised |-> "",
          pt |-> << normLatitude(Angle_times(lat.val[1], latSign)),
                    normLongitude(Angle_times(lng.val[1], lngSign)) >>]

\* parseLatLong from the two stripped fields on: the check for cardinal
\* directions and the two Angles
parseFields(latS, lngS) ==
    IF latS = <<>> \/ lngS = <<>>
    THEN [raised |-> "IndexError", pt |-> <<>>]
    ELSE signedPoint(Angle_parse(cutCardinal(latS, {"s", "S", "n", "N"})),
                     IF latS[Len(latS)] \in {"s", "S"} THEN -1 ELSE 1,
                     Angle_parse(cutCardinal(lngS, {"w", "W", "e", "E"})),
                     IF lngS[Len(lngS)] \in {"w", "W"} THEN -1 ELSE 1)

\* the two fields of str around its comma at index c
splitAt(str, c) ==
    parseFields(strip(SubSeq(str, 1, c - 1)),
                strip(SubSeq(str, c + 1, Len(str))))

\* SpherePoint.parseLatLong(string): the exception raised ("" when none) and
\* the latitude and longitude of the point returned
parseLatLong(string) ==
    LET str    == replace(string, "_", "-")
        commas == {i \in DOMAIN str : str[i] = ","}
    IN  IF Cardinality(commas) # 1
        THEN [raised |-> "ValueError", pt |-> <<>>]
        ELSE splitAt(str, CHOOSE i \in commas : TRUE)

\* a field of the string: its characters and what it stands for
Field(str, rad, deg) == [str |-> str, rad |-> rad, deg |-> deg]

\* degrees without and with the suffix d, with minutes and seconds, with
\* minutes only, and radians
LatFields ==
    { Field(<<"3", "0">>, 0, 30 * Degree),
      Field(<<"3", "0", "d">>, 0, 30 * Degree),
      Field(<<"4", "0", "d", " ", "3", "0", "m", " ", "1", "5", "s">>,
            0, 40 * Degree + 30 * 600 + 15 * 10),
      Field(<<"4", "0", "d", " ", "3", "0", "m">>, 0, 40 * Degree + 30 * 600),
      Field(<<"0", ".", "5", "r">>, 5, 0),
      Field(<<"0", "d">>, 0, 0) }

LongFields ==
    { Field(<<"4", "0">>, 0, 40 * Degree),
      Field(<<"4", "0", "d">>, 0, 40 * Degree),
      Field(<<"1", "0", "d", "0", "m", "0", "s">>, 0, 10 * Degree),
      Field(<<"1", "7", "0", "d", " ", "5", "m">>, 0, 170 * Degree + 5 * 600),
      Field(<<"1", "r">>, 10, 0) }

\* the string the caller holds
LatLongStr(arg) ==
    arg.lat.str \o arg.gap \o arg.latCard \o <<",", " ">>
        \o arg.lng.str \o arg.gap \o arg.lngCard

LlInit ==
    /\ llArg \in [ lat : LatFields,
                   latCard : {<<>>, <<"N">>, <<"S">>, <<"n">>, <<"s">>},
                   lng : LongFields,
                   lngCard : {<<>>, <<"E">>, <<"W">>, <<"e">>, <<"w">>},
                   gap : {<<>>, <<" ">>} ]
    /\ llRet = [raised |-> "", pt |-> <<>>]
    /\ llCall = "none"
    /\ ArIdle
    /\ AxIdle
    /\ SelIdle
    /\ CelIdle
    /\ NmIdle
    /\ CoreIdle

\* SpherePoint.parseLatLong(string)
ParseLatLong ==
    /\ llCall = "none"
    /\ llRet' = parseLatLong(LatLongStr(llArg))
    /\ llCall' = "parseLatLong"
    /\ UNCHANGED <<llArg, notLl>>

LlNext == ParseLatLong

SpecLatLong == LlInit /\ [][LlNext]_vars

----------------------------------------------------------------------------
(* The selection of the Observer (observer.py).  The visible lists are     *)
(* filled through Observer.__addVisible with window coordinates that       *)
(* objToWindow can return, and hold identities of the objects below.       *)

\* a primary, two planets that share an alias ignoring case, and a star
SelObjects ==
    << NewObject(BodyDoc("Sol", {"Sun"}, <<>>, 0, 0), 0),
       NewObject(BodyDoc("Earth", {"Terra"}, <<"sun">>, 2, 0), 1),
       NewObject(BodyDoc("Tellus", {"terra"}, <<"sun">>, 2, 1), 1),
       NewObject(StellarDoc("Vega", {}, 0, 1), 0) >>

\* the window coordinates (x, y) at which objects are recorded
SelCoords ==
    { << <<1, 4>>, <<1, 4>> >>, << <<1, 4>>, <<2, 4>> >>,
      << <<2, 4>>, <<1, 4>> >> }

\* the shifts given to selectBy
Shifts == {-1, 1, 2}

\* [x for _, x in lst].index(selected): the first position whose object is
\* the selection or equals it (NamedMixin.__eq__), counted from 1; 0 when
\* there is none (ValueError)
index(lst, sel) ==
    LET hits == {i \in DOMAIN lst :
                    \/ lst[i][2] = sel
                    \/ sel # 0 /\ NamedMixin_eq(heap[lst[i][2]], heap[sel])}
    IN  IF hits = {} THEN 0
        ELSE CHOOSE i \in hits : \A j \in hits : i <= j

\* Observer.selectBy: the new selection on the list lst
Observer_selectBy(lst, sel, shift) ==
    LET found == index(lst, sel)
        ind   == IF found # 0 THEN (found - 1) + shift
                 ELSE IF shift >= 0 THEN 0 ELSE -1
    IN  IF Len(lst) = 0 THEN 0
        ELSE lst[(ind % Len(lst)) + 1][2]

\* Observer(time, loc, body, wid, hei) standing on the primary
SelInit ==
    /\ heap = SelObjects
    /\ bodies = <<1, 2, 3>>
    /\ stellars = <<4>>
    /\ obody = 1
    /\ refRet = NoPoint
    /\ cCall = [CCall("observer") EXCEPT !.obj = 1]
    /\ VisIdle
    /\ AngIdle
    /\ view = identity /\ otime = 0 /\ oloc = SpherePoint(0, 0)
    /\ win = SkyWindow /\ offset = <<>> /\ toViewC = <<>> /\ now = 0
    /\ oCall = OCall("init")
    /\ rA = identity /\ rB = NoRot /\ rRes = NoRot
    /\ rVec = <<>> /\ rPt = NoPoint /\ rCall = Call("none")

\* Observer.__addVisible(obj, x, y), as objToWindow calls it for an object
\* inside the window
recordVisible(obj, x, y) ==
    /\ Len(byX) < MaxCalls
    /\ byX' = addVisible(byX, x, obj)
    /\ byY' = addVisible(byY, y, obj)
    /\ oCall' = OCall("addVisible")
    /\ sCall' = NoSelect
    /\ UNCHANGED <<winRet, calls, view, otime, oloc, win, offset, toViewC,
                   now, rotVars, catVars, posVars, angVars, sphVars,
                   selected, arVars, axVars, llVars, celVars, nmVars>>

\* Observer.selectBy(shift, isByX)
selectBy(shift, isByX) ==
    LET lst   == IF isByX THEN byX ELSE byY
        new   == Observer_selectBy(lst, selected, shift)
        again == /\ sCall.op = "selectBy"
                 /\ sCall.shift = shift
                 /\ sCall.isByX = isByX
    IN  /\ again => Len(sCall.run) < MaxCalls
        /\ selected' = new
        /\ sCall' = IF again
                    THEN [sCall EXCEPT !.run = Append(@, new)]
                    ELSE [op |-> "selectBy", shift |-> shift,
                          isByX |-> isByX, start |-> selected,
                          run |-> <<new>>, lists |-> <<byX, byY>>]
        /\ UNCHANGED notSel

SelNext ==
    \/ clearVisible
    \/ \E obj \in Entries \ {obody}, c \in SelCoords :
            recordVisible(obj, c[1], c[2])
    \/ \E shift \in Shifts, isByX \in BOOLEAN : selectBy(shift, isByX)

SpecSelect == SelInit /\ [][SelNext]_vars

----------------------------------------------------------------------------
(* Celestial (celestial.py).  One unit of time is a quarter of a sidereal  *)
(* day, in which the Greenwich sidereal time advances by a quarter turn.   *)

\* the Greenwich sidereal time at the epoch, in quarter turns
GmstEpoch == 3

\* Celestial.sky: the transform computed from _time and _loc
Celestial_sky(tm, loc) ==
    LET tmrot == AxisAngle(0, 0, 1, -(GmstEpoch + tm))
        reloc == mul(AxisAngle(0, 1, 0, 1 - Lat(loc)),
                     AxisAngle(0, 0, 1, 2 - Long(loc)))
    IN  mul(reloc, tmrot)

CelCall(op) == [op |-> op, ret |-> NoRot]

\* Celestial(time, loc)
CelInit ==
    /\ cView = identity
    /\ cSky = <<>>
    /\ cTotal = <<>>
    /\ cTime \in Times
    /\ cLoc \in Locs
    /\ celCall = CelCall("init")
    /\ ArIdle
    /\ AxIdle
    /\ LlIdle
    /\ SelIdle
    /\ NmIdle
    /\ CoreIdle

\* Celestial.lookUp
Celestial_lookUp(angle) ==
    /\ cView' = mul(AxisAngle(0, 1, 0, angle), cView)
    /\ cTotal' = <<>>
    /\ celCall' = CelCall("lookUp")
    /\ UNCHANGED <<cSky, cTime, cLoc, notCel>>

\* Celestial.lookRight
Celestial_lookRight(angle) ==
    /\ cView' = mul(AxisAngle(0, 0, 1, angle), cView)
    /\ cTotal' = <<>>
    /\ celCall' = CelCall("lookRight")
    /\ UNCHANGED <<cSky, cTime, cLoc, notCel>>

\* Celestial.lookClock
Celestial_lookClock(angle) ==
    /\ cView' = mul(AxisAngle(-1, 0, 0, angle), cView)
    /\ cTotal' = <<>>
    /\ celCall' = CelCall("lookClock")
    /\ UNCHANGED <<cSky, cTime, cLoc, notCel>>

\* Celestial.lookTo; when Rotation.moveTo raises, nothing is assigned
Celestial_lookTo(point, prop) ==
    LET appar == call(cView, [type |-> "SpherePoint", val |-> point]).val
        move == moveTo(appar, SpherePoint(0, 0), prop)
    IN  /\ celCall' = CelCall("lookTo")
        /\ IF move = NoRot
           THEN UNCHANGED <<cView, cTotal>>
           ELSE cView' = mul(move, cView) /\ cTotal' = <<>>
        /\ UNCHANGED <<cSky, cTime, cLoc, notCel>>

\* Celestial.time setter
Celestial_setTime(tm) ==
    /\ cTime' = tm
    /\ cSky' = <<>>
    /\ celCall' = CelCall("setTime")
    /\ UNCHANGED <<cView, cTotal, cLoc, notCel>>

\* Celestial.sky; the Rotation returned is the new value of _sky
Celestial_readSky ==
    /\ cSky' = IF cSky = <<>> THEN Celestial_sky(cTime, cLoc) ELSE cSky
    /\ celCall' = [op |-> "sky", ret |-> cSky']
    /\ UNCHANGED <<cView, cTotal, cTime, cLoc, notCel>>

\* Celestial.total; the Rotation returned is the new value of _total
Celestial_readTotal ==
    /\ IF cTotal = <<>> \/ cSky = <<>>
       THEN /\ cSky' = IF cSky = <<>> THEN Celestial_sky(cTime, cLoc) ELSE cSky
            /\ cTotal' = mul(cView, cSky')
       ELSE UNCHANGED <<cSky, cTotal>>
    /\ celCall' = [op |-> "total", ret |-> cTotal']
    /\ UNCHANGED <<cView, cTime, cLoc, notCel>>

CelNext ==
    \/ \E a \in Angles : Celestial_lookUp(a)
    \/ \E a \in Angles : Celestial_lookRight(a)
    \/ \E a \in Angles : Celestial_lookClock(a)
    \/ \E pt \in Points, prop \in Props : Celestial_lookTo(pt, prop)
    \/ \E tm \in Times : Celestial_setTime(tm)
    \/ Celestial_readSky
    \/ Celestial_readTotal

SpecCelestial == CelInit /\ [][CelNext]_vars

----------------------------------------------------------------------------
(* An Observer that has recorded visible objects and selected one, and is  *)
(* then turned and moved through time.                                     *)

\* the by-x and the by-y list after the planet at (1/4, 2/4) and the star at
\* (2/4, 1/4) were recorded
WatchedX == addVisible(addVisible(<<>>, <<1, 4>>, 2), <<2, 4>>, 4)
WatchedY == addVisible(addVisible(<<>>, <<2, 4>>, 2), <<1, 4>>, 4)

\* Observer(time, loc, body, wid, hei, sync) standing on the primary, either
\* untouched or after the two objects were recorded and selectBy(1, True)
WatchInit ==
    /\ heap = SelObjects
    /\ bodies = <<1, 2, 3>>
    /\ stellars = <<4>>
    /\ obody = 1
    /\ refRet = NoPoint
    /\ cCall = [CCall("observer") EXCEPT !.obj = 1]
    /\ view = identity
    /\ otime \in Times
    /\ oloc = SpherePoint(0, 0)
    /\ win = SkyWindow
    /\ now = 0
    /\ \E sync \in BOOLEAN : offset = IF sync THEN <<otime - now>> ELSE <<>>
    /\ toViewC = <<>>
    /\ oCall = OCall("init")
    /\ \E shown \in BOOLEAN :
            IF shown
            THEN /\ byX = WatchedX
                 /\ byY = WatchedY
                 /\ selected = Observer_selectBy(WatchedX, 0, 1)
            ELSE /\ byX = <<>>
                 /\ byY = <<>>
                 /\ selected = 0
    /\ sCall = NoSelect
    /\ winRet = <<>>
    /\ calls = <<>>
    /\ posRet = <<>>
    /\ pArg = <<0, 0>>
    /\ pRet = <<>>
    /\ aArg = [kind |-> "none", num |-> 0, str |-> <<>>]
    /\ radians = <<>>
    /\ aRet = <<>>
    /\ aCall = ACall("none")
    /\ rA = identity /\ rB = NoRot /\ rRes = NoRot
    /\ rVec = <<>> /\ rPt = NoPoint /\ rCall = Call("none")
    /\ ArIdle
    /\ AxIdle
    /\ LlIdle
    /\ CelIdle
    /\ NmIdle

\* Observer.center of an Observer whose view is v
centerOf(v) ==
    call(inverse(v), [type |-> "SpherePoint", val |-> SpherePoint(0, 0)]).val

WatchNext ==
    \/ lookUp(1)
    \/ lookRight(1)
    \/ \E a \in Angles : lookClock(a)
    \/ \E tm \in Times : setTime(tm)
    \/ updateTime
    \/ readToView
    \/ Tick
    \/ clearVisible

SpecWatch == WatchInit /\ [][WatchNext]_vars

----------------------------------------------------------------------------
(* NamedMixin.merge and the comparisons of NamedMixin objects *)

\* NamedMixin.initNames(name, aliases)
initNames(name, aliases) == [name |-> name, aliases |-> aliases]

\* the objects the caller constructs
NamedObjects ==
    { initNames(nm, al) : nm \in {"Earth", "Tellus"},
                      al \in SUBSET {"Terra", "TERRA"} }

\* the strings given to merge and tested with `in`
MixinKeys == {"Earth", "EARTH", "Terra", "TERRA", "Tellus", "Moon"}

\* the arguments given to merge
MergeArgs(self) ==
    {[type |-> "NamedMixin", id |-> b, keys |-> {}] :
            b \in DOMAIN mixins \ {self}}
        \cup {[type |-> "str", id |-> 0, keys |-> {k}] : k \in {"TERRA", "Moon"}}
        \cup {[type |-> "iter", id |-> 0, keys |-> {"EARTH", "Moon"}],
              [type |-> "int", id |-> 0, keys |-> {}]}

\* NamedMixin.merge of a NamedMixin that takes its aliases only
NamedMixin_merge_aliases(h, self, other) ==
    IF other.type = "str"
    THEN [raised |-> "",
          obj |-> [h[self] EXCEPT !.aliases = @ \cup other.keys]]
    ELSE IF other.type = "NamedMixin"
    THEN [raised |-> "",
          obj |-> [h[self] EXCEPT !.aliases = @ \cup h[other.id].aliases]]
    ELSE IF other.type = "iter"
    THEN [raised |-> "",
          obj |-> [h[self] EXCEPT !.aliases = @ \cup other.keys]]
    ELSE [raised |-> "TypeError", obj |-> h[self]]

\* NamedMixin.merge(other) on the object self of h: the exception raised
\* ("" when none) and the object afterwards
NamedMixin_merge(h, self, other) ==
    IF other.type = "str"
    THEN [raised |-> "",
          obj |-> [h[self] EXCEPT !.aliases = @ \cup other.keys]]
    ELSE IF other.type = "NamedMixin"
    THEN [raised |-> "",
          obj |-> [h[self] EXCEPT
                     !.aliases = (@ \cup {h[other.id].name})
                                    \cup h[other.id].aliases]]
    ELSE IF other.type = "iter"
    THEN [raised |-> "",
          obj |-> [h[self] EXCEPT !.aliases = @ \cup other.keys]]
    ELSE [raised |-> "TypeError", obj |-> h[self]]

NmInit ==
    /\ mixins \in [1..2 -> NamedObjects]
    /\ nCall = NCall("none")
    /\ ArIdle
    /\ AxIdle
    /\ LlIdle
    /\ SelIdle
    /\ CelIdle
    /\ CoreIdle

\* a.merge(other)
merge(self, other) ==
    LET r == NamedMixin_merge(mixins, self, other)
    IN  /\ mixins' = [mixins EXCEPT ![self] = r.obj]
        /\ nCall' = [op |-> "merge", self |-> self, other |-> other,
                     prev |-> mixins, raised |-> r.raised]
        /\ UNCHANGED notNm

NmNext == \E self \in DOMAIN mixins : \E other \in MergeArgs(self) : merge(self, other)

SpecNamed == NmInit /\ [][NmNext]_vars

----------------------------------------------------------------------------
(* Properties of the Catalog and of Observer.toRef *)

\* the absolute position of a body, computed without any memo
RECURSIVE Absolute(_, _)
Absolute(b, tm) ==
    IF heap[b].parent = 0 THEN <<0, 0, 0>>
    ELSE LET off == Orbit_position(heap[b].orbit, tm)
             par == Absolute(heap[b].parent, tm)
         IN  <<off[1] + par[1], off[2] + par[2], off[3] + par[3]>>

\* C10: toRef(obj) returns None when the Body obj is the body the observer
\* stands on, and for every other Body of the catalog the direction of
\* obj.position(time) - observer.position.
C10_ToRefDirection ==
    (cCall.op = "toRef" /\ heap[cCall.obj].kind = "Body") =>
        IF cCall.obj = obody
        THEN refRet = NoPoint
        ELSE LET there == Absolute(cCall.obj, otime)
                 here == Absolute(obody, otime)
             IN  /\ refRet # NoPoint
                 /\ Vector(refRet) = Vector(SpherePointXYZ(there[1] - here[1],
                                                           there[2] - here[2],
                                                           there[3] - here[3]))

\* C12: after Catalog.append(obj) returns, obj is an entry and no other
\* entry, Body or Stellar, shares a name or alias with obj ignoring case.
C12_AppendOverwrites ==
    (cCall.op = "load" /\ ~cCall.raised) =>
        /\ cCall.obj \in Entries
        /\ \A e \in Entries \ {cCall.obj} :
              ~NamedMixin_eq(heap[e], heap[cCall.obj])

\* the name or an alias of the object equals key ignoring case
Named(obj, key) == \E n \in {obj.name} \cup obj.aliases : Lower(n) = Lower(key)

\* C13: catalog[key] returns an entry whose name or alias equals key
\* ignoring case whenever there is one; when there is none, lookup and
\* deletion by key raise KeyError and leave the lists as they were.
C13_LookupByKey ==
    LET before == {cCall.prev[1][i] : i \in DOMAIN cCall.prev[1]}
                    \cup {cCall.prev[2][i] : i \in DOMAIN cCall.prev[2]}
        exists == \E e \in before : Named(heap[e], cCall.key)
    IN  /\ cCall.op = "getitem" =>
              /\ exists => /\ ~cCall.raised
                           /\ cCall.obj \in before
                           /\ Named(heap[cCall.obj], cCall.key)
              /\ ~exists => cCall.raised
              /\ <<bodies, stellars>> = cCall.prev
        /\ (cCall.op = "delete" /\ ~exists) =>
              /\ cCall.raised
              /\ <<bodies, stellars>> = cCall.prev

\* a lookup found a star by an alias that differs from the key in case
C13_Witness ==
    /\ cCall.op = "getitem"
    /\ ~cCall.raised
    /\ heap[cCall.obj].kind = "Stellar"
    /\ cCall.key \notin {heap[cCall.obj].name} \cup heap[cCall.obj].aliases

\* C14: every position(time) query on a body of a chain returns the
\* body's orbit offset at that time plus its parent's absolute position
\* at that time, the primary at the origin: what recomputing without a
\* memo returns, whatever queries and times came before.
C14_PositionIsRecomputed ==
    posRet # <<>> => posRet.pos = Absolute(posRet.obj, posRet.time)

\* the moon's memo was returned for a time after the epoch while its
\* parent's memo holds another time, and the moon moves between the times
C14_Witness ==
    /\ posRet # <<>>
    /\ posRet.hit
    /\ heap[posRet.obj].parent # 0
    /\ heap[heap[posRet.obj].parent].parent # 0
    /\ heap[heap[posRet.obj].parent].memo # <<>>
    /\ heap[heap[posRet.obj].parent].memo[1] # posRet.time
    /\ posRet.time > 0
    /\ Absolute(posRet.obj, 0) # posRet.pos

\* C15: a Body that names a parent is constructed only when a Body of
\* that name is already in the catalog, and then has it as parent; when
\* the name matches no Body of the catalog the load fails and the child
\* is not added.
C15_ParentMustExist ==
    (cCall.op = "load" /\ cCall.parentName # <<>>) =>
        LET before == {cCall.prev[1][i] : i \in DOMAIN cCall.prev[1]}
            exists == \E b \in before : Named(heap[b], cCall.parentName[1])
        IN  /\ ~exists => /\ cCall.raised
                          /\ <<bodies, stellars>> = cCall.prev
            /\ ~cCall.raised =>
                  /\ heap[cCall.obj].parent \in before
                  /\ Named(heap[heap[cCall.obj].parent], cCall.parentName[1])

\* a load failed on a catalog that holds bodies, none with the name of
\* the parent
C15_Witness ==
    /\ cCall.op = "load"
    /\ cCall.parentName # <<>>
    /\ cCall.raised
    /\ Len(bodies) >= 2

----------------------------------------------------------------------------
(* Properties of Angle *)

\* the value of a (whole, minute, second) triple of degrees, the sign
\* carried on whole, in tenths of an arc second
DmsValue(t) ==
    IF t[1] < 0 THEN -((-t[1]) * Degree + t[2] * 600 + t[3])
    ELSE t[1] * Degree + t[2] * 600 + t[3]

\* the value of a triple of hours, in 1/150 of a second of time
HmsValue(t) == t[1] * Hour + t[2] * 9000 + t[3]

\* C16: for every Angle, dms returns a triple whose value lies in
\* (-180 degrees, 180 degrees] and is congruent to the angle modulo 360
\* degrees, and hms returns a triple whose value lies in [0h, 24h) and is
\* congruent to the angle modulo 24h.
C16_DmsHmsNormalised ==
    /\ aCall.op = "dms" =>
          /\ DmsValue(aRet) > -180 * Degree
          /\ DmsValue(aRet) <= 180 * Degree
          /\ (DmsValue(aRet) - radians[1]) % Turn = 0
    /\ aCall.op = "hms" =>
          /\ HmsValue(aRet) >= 0
          /\ HmsValue(aRet) < 24 * Hour
          /\ (HmsValue(aRet) - radians[1]) % (24 * Hour) = 0

\* C17: for every Angle a, a.dms is a triple with 0 <= minute < 60 and
\* 0 <= second < 60 (the sign on whole only), and the Angle constructed from
\* that triple is a modulo 360 degrees.
C17_DmsRoundTrip ==
    /\ aCall.op = "dms" =>
          /\ aRet[2] >= 0 /\ aRet[2] < 60
          /\ aRet[3] >= 0 /\ aRet[3] < 600
    /\ aCall.op = "fromdms" => (radians[1] - aCall.prev[1]) % Turn = 0

\* C18: a DMS string with a leading "-" parses to the negative of the Angle
\* that the string without the sign parses to, and one with a leading "+"
\* to the same Angle.
C18_SignedDms ==
    (/\ aCall.op = "str"
     /\ At(aArg.str, 1) \in {"+", "-"}
     /\ angleRE_match(Tail(aArg.str)).ok
     /\ angleRE_match(Tail(aArg.str)).unit = "d"
     /\ Angle_str(Tail(aArg.str)).raised = "")
    => /\ aCall.raised = ""
       /\ radians[1] = (IF aArg.str[1] = "-" THEN -1 ELSE 1)
                          * Angle_str(Tail(aArg.str)).val[1]

\* the string is a number with an optional final "d" or "r"
Numeric(str) ==
    LET args == lower(strip(str))
    IN  /\ args # <<>>
        /\ float(IF args[Len(args)] \in {"d", "r"}
                 THEN SubSeq(args, 1, Len(args) - 1) ELSE args).ok

\* the defects of an angle string: it is not wholly of the D/H-M-S form
\* (white space around it aside), it is an HMS string with a sign, or a
\* field is out of range
Defective(str) ==
    LET g == angleRE_match(strip(str))
    IN  \/ ~g.ok
        \/ g.end # Len(strip(str))
        \/ g.unit = "h" /\ g.sign # ""
        \/ g.unit = "h" /\ g.hd > 23
        \/ g.unit = "d" /\ g.hd > 359
        \/ g.m >= 60
        \/ g.s >= 600

\* C19: parsing an angle string raises ValueError and produces no Angle
\* when the string is a signed HMS string, has hours outside 0..23 or
\* degrees outside 0..359, minutes or seconds outside [0, 60), or is not of
\* the D/H-M-S form; every other string parses.
C19_ParseFailsOnDefect ==
    (aCall.op = "str" /\ ~Numeric(aArg.str)) =>
        /\ Defective(aArg.str) <=> aCall.raised = "ValueError"
        /\ aCall.raised # "" <=> radians = <<>>
        /\ aCall.raised \in {"", "ValueError"}

----------------------------------------------------------------------------
(* Properties of SpherePoint(lat, long) *)

\* the stored latitude has the sine of the latitude given: it is the
\* latitude itself or its mirror image pi - lat, modulo a full turn
SameSine(st, lat) ==
    \/ (st - lat) % (4 * LatUnit) = 0
    \/ (st + lat - 2 * LatUnit) % (4 * LatUnit) = 0

----------------------------------------------------------------------------
(* Properties of Angle + *)

\* C21: for Angles a and b, a + b equals b + a, and for every int or float
\* n both a + n and n + a yield the Angle of a.radians + n radians.
C21_AddCommutes ==
    xCall = "add" =>
        /\ xRet = Returned(xL.val + xR.val)
        /\ xRet = BinaryAdd(xR, xL)

----------------------------------------------------------------------------
(* Properties of the axis-angle signatures *)

\* C22: every axis-angle construction of a Rotation (axis as components,
\* as a tuple, or as a SpherePoint) with a zero-length axis raises
\* ValueError, for any angle including 0, and no Rotation is produced.
C22_ZeroAxisRejected ==
    (axCall = "new" /\ Rotation_axis(axArg) = <<0, 0, 0>>) => axRet = NoRot

\* a zero axis given as a tuple with the angle 0 was rejected
C22_Witness ==
    /\ axCall = "new"
    /\ axArg.form = "tuple"
    /\ axArg.axis = <<0, 0, 0>>
    /\ axArg.ang = 0
    /\ axRet = NoRot

\* the sign a cardinal letter gives its field
CardinalSign(card) == IF card \in {<<"S">>, <<"s">>, <<"W">>, <<"w">>} THEN -1 ELSE 1

\* C23: parseLatLong accepts every string "LAT[N|S], LONG[E|W]" whose fields
\* are degrees with an optional d (and optional minutes and seconds) or
\* radians with r, and returns the point whose latitude and longitude are the
\* fields' values, negated by S and W
C23_ParseLatLong ==
    llCall = "parseLatLong" =>
        /\ llRet.raised = ""
        /\ llRet.pt = << Mixed(llArg.lat.rad * CardinalSign(llArg.latCard),
                               llArg.lat.deg * CardinalSign(llArg.latCard)),
                         Mixed(llArg.lng.rad * CardinalSign(llArg.lngCard),
                               llArg.lng.deg * CardinalSign(llArg.lngCard)) >>

----------------------------------------------------------------------------
(* Properties of the selection *)

\* the list the last selectBy call worked on, as the call found it
SelList == IF sCall.isByX THEN sCall.lists[1] ELSE sCall.lists[2]

\* the selection the last selectBy call found
SelBefore ==
    IF Len(sCall.run) = 1 THEN sCall.start ELSE sCall.run[Len(sCall.run) - 1]

\* the positions of the list that hold the object obj
Positions(lst, obj) == {i \in DOMAIN lst : lst[i][2] = obj}

\* C24: selectBy(shift, isByX) on a list of n entries selects None when
\* n = 0, the object shift positions (mod n) after a position of the
\* selected object when that object is in the list, and otherwise the first
\* entry when shift >= 0 and the last when shift < 0; the lists are unchanged
C24_SelectBy ==
    sCall.op = "selectBy" =>
        LET lst == SelList
            n   == Len(lst)
            at  == Positions(lst, SelBefore)
        IN  /\ n = 0 => selected = 0
            /\ n > 0 /\ at # {} =>
                    \E i \in at : selected = lst[((i - 1 + sCall.shift) % n) + 1][2]
            /\ n > 0 /\ at = {} =>
                    selected = lst[IF sCall.shift >= 0 THEN 1 ELSE n][2]
            /\ <<byX, byY>> = sCall.lists

\* C29: with n objects recorded in a visible list and the lists left
\* unchanged, n selectBy(+1) calls in a row on that list select every
\* recorded object at least once, and so do n selectBy(-1) calls
C29_CyclingReachesAll ==
    /\ sCall.op = "selectBy"
    /\ sCall.shift \in {1, -1}
    /\ Len(SelList) > 0
    /\ Len(sCall.run) = Len(SelList)
    => \A i \in DOMAIN SelList :
            \E k \in DOMAIN sCall.run : sCall.run[k] = SelList[i][2]

----------------------------------------------------------------------------
(* Properties of Celestial *)

\* C25: whatever time assignments, look operations and reads of sky and
\* total came before, a read of total returns the current view composed
\* with the sky transform of the current time and location
C25_TotalCurrent ==
    celCall.op = "total" =>
        celCall.ret = mul(cView, Celestial_sky(cTime, cLoc))

----------------------------------------------------------------------------
(* Properties of an Observer that shows objects *)

\* C26: updateTime on an Observer constructed with sync=True sets the time
\* to the stored offset plus the current clock and drops the memoized
\* toView; on an Observer constructed with sync=False it leaves the time,
\* the view, the memoized toView, the visible lists and the selection as
\* they are
C26_UpdateTimeOnlySynced ==
    [][ oCall'.op = "updateTime" =>
            IF offset # <<>>
            THEN otime' = offset[1] + now /\ toViewC' = <<>>
            ELSE UNCHANGED <<otime, view, toViewC, byX, byY, selected>> ]_vars

\* updateTime was called on an unsynchronised Observer that holds a
\* memoized toView, shows objects, has one selected and whose time is not
\* the clock's
C26_Witness ==
    /\ oCall.op = "updateTime"
    /\ offset = <<>>
    /\ toViewC # <<>>
    /\ otime # now
    /\ byX # <<>>
    /\ selected # 0

\* C27: lookClock(angle) leaves the centre of the view where it was, and
\* leaves the time, the location, the visible lists and the selection
\* unchanged
C27_LookClockKeepsCentre ==
    [][ oCall'.op = "lookClock" =>
            /\ centerOf(view') = centerOf(view)
            /\ UNCHANGED <<otime, oloc, byX, byY, selected>> ]_vars

\* lookClock turned a view whose centre is off the axes of the first view,
\* by an angle that changed the view, while objects were shown and one was
\* selected
C27_Witness ==
    /\ oCall.op = "lookClock"
    /\ oCall.angle % 4 # 0
    /\ oCall.prev # identity
    /\ view # oCall.prev
    /\ centerOf(view) # SpherePoint(0, 0)
    /\ byX # <<>>
    /\ selected # 0

----------------------------------------------------------------------------
(* Properties of NamedMixin *)

\* the names and aliases of an object
AllNames(obj) == obj.aliases \cup {obj.name}

C30_ParentInCatalog ==
    \A i \in DOMAIN bodies :
        heap[bodies[i]].parent # 0 =>
            \E j \in DOMAIN bodies : bodies[j] = heap[bodies[i]].parent

====
